---- MODULE Spec2Model ----
(***************************************************************************)
(* Transcript ingestion and insight pipeline of townhall-insights.         *)
(*                                                                         *)
(* Python str values are sequences of one-character strings, so that       *)
(* strip, split, lower and substring tests are computed as the code        *)
(* computes them.  A transcript text is kept as the sequence of its lines  *)
(* (the value of file_content.split('\n')).  Sentiment scores are integers *)
(* in hundredths (0.5 is 50); times are integers in milliseconds.          *)
(* uuid.uuid4() is a counter that never repeats.                           *)
(***************************************************************************)
EXTENDS Integers, Sequences, FiniteSets, TLC

(***************************************************************************)
(* Bounds of the model.                                                    *)
(***************************************************************************)
\* Lines of a caption file drawn for the parser specification.
MaxLines == 5
\* Notifications in the body of one webhook POST.
MaxNotifications == 2

(***************************************************************************)
(* str helpers.                                                            *)
(***************************************************************************)
MinOf(S) == CHOOSE i \in S : \A j \in S : i <= j

MaxOf(S) == CHOOSE i \in S : \A j \in S : j <= i

\* The element of a one-element set: Only({e(x) : x \in {v}}) is e with the
\* local x assigned the value v once.
Only(S) == CHOOSE x \in S : TRUE

IsSpace(c) == c \in {" ", "\n", "\t"}

\* str.lstrip()
LStrip(s) ==
  Only({ IF \A i \in 1..Len(t) : IsSpace(t[i]) THEN <<>>
         ELSE SubSeq(t, MinOf({i \in 1..Len(t) : ~IsSpace(t[i])}), Len(t))
       : t \in {s} })

\* str.rstrip()
RStrip(s) ==
  Only({ IF \A i \in 1..Len(t) : IsSpace(t[i]) THEN <<>>
         ELSE SubSeq(t, 1, MaxOf({i \in 1..Len(t) : ~IsSpace(t[i])}))
       : t \in {s} })

\* str.strip()
Strip(s) == RStrip(LStrip(s))

\* str.find(p) + 1: the first position of p in s, 0 when p does not occur.
Find(s, p) ==
  Only({ IF I = {} THEN 0 ELSE MinOf(I)
       : I \in {{i \in 1..(Len(t) - Len(p) + 1) : SubSeq(t, i, i + Len(p) - 1) = p}
                 : t \in {s}} })

\* p in s
Contains(s, p) == Find(s, p) > 0

StartsWith(s, p) == Len(s) >= Len(p) /\ SubSeq(s, 1, Len(p)) = p

\* s.split(sep, 1)
SplitOnce(s, sep) ==
  Only({ IF k = 0 THEN <<s>>
         ELSE <<SubSeq(s, 1, k - 1), SubSeq(s, k + Len(sep), Len(s))>>
       : k \in {Find(s, sep)} })

\* s.split(sep)
RECURSIVE SplitAll(_, _)
SplitAll(s, sep) ==
  Only({ IF k = 0 THEN <<s>>
         ELSE <<SubSeq(s, 1, k - 1)>>
              \o Only({ SplitAll(rest, sep) : rest \in {SubSeq(s, k + Len(sep), Len(s))} })
       : k \in {Find(s, sep)} })

\* sep.join(parts)
RECURSIVE Join(_, _)
Join(parts, sep) ==
  IF parts = <<>> THEN <<>>
  ELSE IF Len(parts) = 1 THEN parts[1]
  ELSE parts[1] \o sep \o Join(Tail(parts), sep)

LowerChar(c) ==
  CASE c = "A" -> "a" [] c = "B" -> "b" [] c = "C" -> "c" [] c = "D" -> "d"
    [] c = "E" -> "e" [] c = "F" -> "f" [] c = "G" -> "g" [] c = "H" -> "h"
    [] c = "I" -> "i" [] c = "J" -> "j" [] c = "K" -> "k" [] c = "L" -> "l"
    [] c = "M" -> "m" [] c = "N" -> "n" [] c = "O" -> "o" [] c = "P" -> "p"
    [] c = "Q" -> "q" [] c = "R" -> "r" [] c = "S" -> "s" [] c = "T" -> "t"
    [] c = "U" -> "u" [] c = "V" -> "v" [] c = "W" -> "w" [] c = "X" -> "x"
    [] c = "Y" -> "y" [] c = "Z" -> "z" [] OTHER -> c

\* str.lower()
Lower(s) == Only({ [i \in 1..Len(t) |-> LowerChar(t[i])] : t \in {s} })

Digits == <<"0", "1", "2", "3", "4", "5", "6", "7", "8", "9">>

IsDigit(c) == \E d \in 1..10 : Digits[d] = c

DigitVal(c) == (CHOOSE d \in 1..10 : Digits[d] = c) - 1

AllDigits(s) == \E t \in {s} : t # <<>> /\ \A i \in 1..Len(t) : IsDigit(t[i])

RECURSIVE DecimalValue(_)
DecimalValue(s) ==
  IF s = <<>> THEN 0
  ELSE 10 * DecimalValue(SubSeq(s, 1, Len(s) - 1)) + DigitVal(s[Len(s)])

\* int(s): surrounding whitespace and one sign are accepted, anything else
\* raises ValueError (ok = FALSE).
PyInt(s) ==
  Only({ IF t # <<>> /\ Head(t) = "-"
         THEN (IF AllDigits(Tail(t)) THEN [ok |-> TRUE, v |-> 0 - DecimalValue(Tail(t))]
               ELSE [ok |-> FALSE, v |-> 0])
         ELSE IF t # <<>> /\ Head(t) = "+"
         THEN (IF AllDigits(Tail(t)) THEN [ok |-> TRUE, v |-> DecimalValue(Tail(t))]
               ELSE [ok |-> FALSE, v |-> 0])
         ELSE IF AllDigits(t) THEN [ok |-> TRUE, v |-> DecimalValue(t)]
         ELSE [ok |-> FALSE, v |-> 0]
       : t \in {Strip(s)} })

\* Python None where a str is expected.
PyNone == <<"<None>">>

\* bool(x) of a str or None
Truthy(s) == s # PyNone /\ s # <<>>

(***************************************************************************)
(* TranscriptParser.time_to_seconds, in milliseconds.  The fraction after  *)
(* the '.' is read as an integer count of milliseconds and divided by      *)
(* 1000.0, whatever its number of digits.  Any exception yields 0.0.       *)
(***************************************************************************)
time_to_seconds(time_str) ==
  IF time_str = PyNone THEN 0
  ELSE
    Only({ IF Len(parts) # 3 THEN 0
           ELSE
             Only({ Only({ IF hms[1].ok /\ hms[2].ok /\ hms[3].ok /\ hms[4].ok
                           THEN hms[1].v * 3600000 + hms[2].v * 60000
                                + hms[3].v * 1000 + hms[4].v
                           ELSE 0
                         : hms \in {[field \in 1..4 |->
                                      IF field <= 2 THEN PyInt(parts[field])
                                      ELSE IF field - 2 <= Len(seconds_parts)
                                      THEN PyInt(seconds_parts[field - 2])
                                      ELSE [ok |-> TRUE, v |-> 0]]} })
                  : seconds_parts \in {SplitAll(parts[3], <<".">>)} })
         : parts \in {SplitAll(time_str, <<":">>)} })

(***************************************************************************)
(* Speaker extraction, the same statements in parse_vtt and in the         *)
(* fallback.  len(content.split(':', 1)) == 2 holds whenever ':' occurs.   *)
(***************************************************************************)
SpeakerLimit == 50

UnknownSpeaker ==
  <<"U", "n", "k", "n", "o", "w", "n", " ", "S", "p", "e", "a", "k", "e", "r">>

ExtractSpeaker(content) ==
  Only({ IF Len(parts) = 2 /\ Len(parts[1]) < SpeakerLimit
         THEN [speaker |-> parts[1], content |-> parts[2]]
         ELSE [speaker |-> UnknownSpeaker, content |-> content]
       : parts \in {[k \in 1..Len(SplitOnce(content, <<":">>)) |->
                      Strip(SplitOnce(content, <<":">>)[k])]} })

\* The utterance record both caption parsers build.
VttUtterance(id, sc, start, end) ==
  Only({ [utterance_id |-> id,
          speaker |-> sc.speaker,
          content |-> sc.content,
          start_time |-> start,
          end_time |-> end,
          duration |-> seconds[2] - seconds[1],
          timed |-> TRUE,
          start_time_seconds |-> seconds[1],
          end_time_seconds |-> seconds[2]]
       : seconds \in {[k \in 1..2 |-> time_to_seconds(IF k = 1 THEN start ELSE end)]} })

(***************************************************************************)
(* webvtt.from_string, the library call of parse_vtt: the text must start  *)
(* with WEBVTT or the call raises; the blocks are the runs of non-blank    *)
(* lines; a block is a cue when its first or second line is a timing line  *)
(* and the line after it holds no arrow; a block that is no cue is         *)
(* skipped.  caption.text joins the cue's text lines with a newline and    *)
(* caption.start / caption.end are rewritten as HH:MM:SS.mmm.              *)
(***************************************************************************)
Arrow == <<"-", "-", ">">>

SpacedArrow == <<" ", "-", "-", ">", " ">>

WebVttMagic == <<"W", "E", "B", "V", "T", "T">>

\* (?:\d+:)?\d{2}:\d{2}\.\d{3}
IsTimestamp(s) ==
  \E parts \in {SplitAll(s, <<":">>)} :
    \E n \in {Len(parts)} :
      /\ n \in {2, 3}
      /\ n = 3 => AllDigits(parts[1])
      /\ Len(parts[n - 1]) = 2 /\ AllDigits(parts[n - 1])
      /\ Len(parts[n]) = 6
      /\ AllDigits(SubSeq(parts[n], 1, 2))
      /\ parts[n][3] = "."
      /\ AllDigits(SubSeq(parts[n], 4, 6))

\* The length of the timestamp s starts with, 0 when it starts with none.
TimestampPrefix(s) ==
  Only({ IF N = {} THEN 0 ELSE MinOf(N)
       : N \in {{n \in 1..Len(t) : IsTimestamp(SubSeq(t, 1, n))} : t \in {s}} })

\* re.match(CUE_TIMINGS_PATTERN, line)
IsCueTimings(line) ==
  \E k \in {Find(line, Arrow)} :
    /\ k > 0
    /\ IsTimestamp(Strip(SubSeq(line, 1, k - 1)))
    /\ TimestampPrefix(LStrip(SubSeq(line, k + 3, Len(line)))) > 0

PadTwo(s) == IF Len(s) = 1 THEN <<"0">> \o s ELSE s

\* str(Timestamp.from_string(s))
NormalizeTimestamp(s) ==
  LET parts == SplitAll(s, <<":">>)
  IN IF Len(parts) = 2 THEN <<"0", "0", ":">> \o s
     ELSE PadTwo(parts[1]) \o <<":">> \o parts[2] \o <<":">> \o parts[3]

CueStart(line) ==
  NormalizeTimestamp(Strip(SubSeq(line, 1, Find(line, Arrow) - 1)))

CueEnd(line) ==
  Only({ NormalizeTimestamp(SubSeq(r, 1, TimestampPrefix(r)))
       : r \in {LStrip(SubSeq(line, Find(line, Arrow) + 3, Len(line)))} })

\* The blocks of a text: its maximal runs of non-blank lines.
RECURSIVE BlocksOf(_, _)
BlocksOf(lines, current) ==
  IF lines = <<>> THEN (IF current = <<>> THEN <<>> ELSE <<current>>)
  ELSE IF Strip(Head(lines)) = <<>>
       THEN (IF current = <<>> THEN <<>> ELSE <<current>>)
            \o BlocksOf(Tail(lines), <<>>)
       ELSE Only({ BlocksOf(Tail(lines), block) : block \in {Append(current, Head(lines))} })

\* WebVTTCueBlock.is_valid
IsCueBlock(b) ==
  \E t \in 1..2 :
    /\ Len(b) >= t + 1
    /\ t = 2 => ~Contains(b[1], Arrow)
    /\ IsCueTimings(b[t])
    /\ ~Contains(b[t + 1], Arrow)

\* The caption of a cue block: start, end and text.
CaptionOf(b) ==
  Only({ [start |-> CueStart(b[t]),
          end |-> CueEnd(b[t]),
          text |-> Join(SubSeq(b, t + 1, Len(b)), <<"\n">>)]
       : t \in {IF Contains(b[1], Arrow) THEN 1 ELSE 2} })

RECURSIVE CaptionsOf(_)
CaptionsOf(blocks) ==
  IF blocks = <<>> THEN <<>>
  ELSE CaptionsOf(SubSeq(blocks, 1, Len(blocks) - 1))
       \o (IF IsCueBlock(blocks[Len(blocks)]) THEN <<CaptionOf(blocks[Len(blocks)])>>
           ELSE <<>>)

\* webvtt.from_string(file_content): raised, or the captions.
WebVttFromString(lines) ==
  IF lines # <<>> /\ StartsWith(lines[1], WebVttMagic)
  THEN [raised |-> FALSE, captions |-> CaptionsOf(BlocksOf(lines, <<>>))]
  ELSE [raised |-> TRUE, captions |-> <<>>]

(***************************************************************************)
(* The loop of parse_vtt over the captions.  base is the number of uuids   *)
(* drawn so far.                                                           *)
(***************************************************************************)
RECURSIVE PrimaryUtterances(_, _, _)
PrimaryUtterances(captions, base, out) ==
  IF captions = <<>> THEN out
  ELSE
    Only({ PrimaryUtterances(Tail(captions), base,
             IF sc.content = <<>> THEN out
             ELSE Append(out, VttUtterance(base + Len(out) + 1, sc,
                                           Head(captions).start, Head(captions).end)))
         : sc \in {ExtractSpeaker(Strip(Head(captions).text))} })

(***************************************************************************)
(* TranscriptParser._parse_vtt_fallback: one turn of its while loop on the *)
(* state [i, out]; i is 1-based here.                                      *)
(***************************************************************************)
\* The first index >= i of a non-blank line, Len(lines) + 1 when none.
RECURSIVE SkipBlank(_, _)
SkipBlank(lines, i) ==
  IF i <= Len(lines) /\ Strip(lines[i]) = <<>> THEN SkipBlank(lines, i + 1) ELSE i

\* A loop whose index stays on a timing line.
FallbackStepStaying(lines, base, st) ==
  IF Contains(lines[st.i], Arrow) THEN st ELSE [i |-> st.i + 1, out |-> st.out]

FallbackStep(lines, base, st) ==
  Only({ IF Contains(line, Arrow) /\ Contains(line, <<":">>)
         THEN
           Only({ IF Len(parts) # 2
                  THEN \* the unpacking raises; the except logs and the loop goes on
                       [i |-> st.i + 1, out |-> st.out]
                  ELSE
                    Only({ IF j <= Len(lines)
                           THEN
                             Only({ [i |-> j + 1,
                                     out |-> IF sc.content # <<>>
                                             THEN Append(st.out,
                                                    VttUtterance(base + Len(st.out) + 1,
                                                                 sc, Strip(parts[1]),
                                                                 Strip(parts[2])))
                                             ELSE st.out]
                                  : sc \in {ExtractSpeaker(Strip(lines[j]))} })
                           ELSE [i |-> j + 1, out |-> st.out]
                         : j \in {SkipBlank(lines, st.i + 1)} })
                : parts \in {SplitAll(line, SpacedArrow)} })
         ELSE [i |-> st.i + 1, out |-> st.out]
       : line \in {Strip(lines[st.i])} })

RECURSIVE FallbackRun(_, _, _)
FallbackRun(lines, base, st) ==
  IF st.i <= Len(lines)
  THEN Only({ FallbackRun(lines, base, next) : next \in {FallbackStep(lines, base, st)} })
  ELSE st.out

parse_vtt_fallback(lines, base) == FallbackRun(lines, base, [i |-> 1, out |-> <<>>])

\* TranscriptParser.parse_vtt: the except replaces the whole list.
parse_vtt(lines, base) ==
  Only({ IF vtt.raised THEN parse_vtt_fallback(lines, base)
         ELSE PrimaryUtterances(vtt.captions, base, <<>>)
       : vtt \in {WebVttFromString(lines)} })

(***************************************************************************)
(* TranscriptParser.parse_docx.  A document is [openable, paragraphs]:     *)
(* Document(io.BytesIO(bytes)) raises on a container it cannot open.       *)
(***************************************************************************)
\* re.match(r'^([^:]+):\s*(.+)$', text) on a stripped paragraph text.
DocxSpeakerMatch(text) ==
  LET k == Find(text, <<":">>)
  IN IF k > 1 /\ LStrip(SubSeq(text, k + 1, Len(text))) # <<>>
     THEN [matched |-> TRUE,
           g1 |-> SubSeq(text, 1, k - 1),
           g2 |-> LStrip(SubSeq(text, k + 1, Len(text)))]
     ELSE [matched |-> FALSE, g1 |-> <<>>, g2 |-> <<>>]

DocxUtterance(id, speaker, content) ==
  [utterance_id |-> id,
   speaker |-> speaker,
   content |-> Join(content, <<" ">>),
   start_time |-> PyNone,
   end_time |-> PyNone,
   duration |-> 0,
   timed |-> FALSE,
   start_time_seconds |-> 0,
   end_time_seconds |-> 0]

\* The utterance of the turn in st, when it has a speaker and some content.
DocxFlush(base, st) ==
  IF Truthy(st.speaker) /\ st.content # <<>>
  THEN Append(st.out, DocxUtterance(base + Len(st.out) + 1, st.speaker, st.content))
  ELSE st.out

RECURSIVE DocxWalk(_, _, _)
DocxWalk(paragraphs, base, st) ==
  IF paragraphs = <<>> THEN DocxFlush(base, st)
  ELSE
    DocxWalk(Tail(paragraphs), base,
      Only({ IF text = <<>> THEN st
             ELSE Only({ IF m.matched
                         THEN [speaker |-> Strip(m.g1), content |-> <<Strip(m.g2)>>,
                               out |-> DocxFlush(base, st)]
                         ELSE [st EXCEPT !.content = Append(@, text)]
                       : m \in {DocxSpeakerMatch(text)} })
           : text \in {Strip(Head(paragraphs))} }))

\* A parse_docx that reads an unopenable container as an empty document.
parse_docx_lenient(doc, base) ==
  [raised |-> FALSE,
   utterances |-> DocxWalk(doc.paragraphs, base,
                    [speaker |-> PyNone, content |-> <<>>, out |-> <<>>])]

\* raised: the ValueError("Invalid DOCX format") of the except.
parse_docx(doc, base) ==
  IF doc.openable
  THEN [raised |-> FALSE,
        utterances |-> DocxWalk(doc.paragraphs, base,
                         [speaker |-> PyNone, content |-> <<>>, out |-> <<>>])]
  ELSE [raised |-> TRUE, utterances |-> <<>>]

(***************************************************************************)
(* TranscriptParser.normalize_utterances.  meeting_date is a str or None,  *)
(* current_time the text of datetime.utcnow().isoformat().                 *)
(***************************************************************************)
Count(s, c) == Cardinality({i \in 1..Len(s) : s[i] = c})

MidnightSuffix == <<"T", "0", "0", ":", "0", "0", ":", "0", "0", "Z">>

ZeroTimestamp == <<"0", "0", ":", "0", "0", ":", "0", "0">>

BareDateLen == 10

MeetingDateValue(meeting_date, current_time) ==
  IF Truthy(meeting_date)
  THEN IF Len(meeting_date) = BareDateLen /\ Count(meeting_date, "-") = 2
       THEN meeting_date \o MidnightSuffix
       ELSE meeting_date
  ELSE current_time

NormalizeOne(utterance, meeting_id, meeting_date, current_time) ==
  [id |-> utterance.utterance_id,
   meeting_id |-> meeting_id,
   meeting_date |-> MeetingDateValue(meeting_date, current_time),
   speaker |-> utterance.speaker,
   department |-> "Unknown",
   region |-> "Unknown",
   topics |-> <<>>,
   sentiment_score |-> 0,
   content |-> utterance.content,
   start_timestamp |-> IF Truthy(utterance.start_time) THEN utterance.start_time
                       ELSE ZeroTimestamp,
   end_timestamp |-> IF Truthy(utterance.end_time) THEN utterance.end_time
                     ELSE ZeroTimestamp,
   duration_seconds |-> IF utterance.timed THEN utterance.duration ELSE 0,
   created_at |-> current_time,
   updated_at |-> current_time,
   has_entities |-> FALSE]

normalize_utterances(utterances, meeting_id, meeting_date, current_time) ==
  [i \in 1..Len(utterances) |->
     NormalizeOne(utterances[i], meeting_id, meeting_date, current_time)]

(***************************************************************************)
(* Floats as the code meets them: [k |-> "num", v |-> hundredths], nan,    *)
(* inf and ninf.  float(text) accepts an optional sign, digits with an     *)
(* optional fraction, and the words nan, inf and infinity in any case.     *)
(***************************************************************************)
Num(v) == [k |-> "num", v |-> v]

NotANumber == [k |-> "nan", v |-> 0]

PlusInf == [k |-> "inf", v |-> 0]

MinusInf == [k |-> "ninf", v |-> 0]

\* The first two digits of a fraction, in hundredths.
Hundredths(frac) ==
  IF frac = <<>> THEN 0
  ELSE IF Len(frac) = 1 THEN 10 * DigitVal(frac[1])
  ELSE 10 * DigitVal(frac[1]) + DigitVal(frac[2])

WordNan == <<"n", "a", "n">>

WordInf == <<"i", "n", "f">>

WordInfinity == <<"i", "n", "f", "i", "n", "i", "t", "y">>

\* float(s): ok = FALSE is the ValueError.
\* The value of an unsigned literal u, negated when neg.
PyFloatUnsigned(u, neg) ==
  IF u = WordNan THEN [ok |-> TRUE, f |-> NotANumber]
  ELSE IF u \in {WordInf, WordInfinity}
  THEN [ok |-> TRUE, f |-> IF neg THEN MinusInf ELSE PlusInf]
  ELSE
    Only({ Only({ IF /\ Len(parts) <= 2
                     /\ parts[1] = <<>> \/ AllDigits(parts[1])
                     /\ frac = <<>> \/ AllDigits(frac)
                     /\ parts[1] # <<>> \/ frac # <<>>
                  THEN Only({ [ok |-> TRUE,
                               f |-> Num(IF neg THEN 0 - magnitude ELSE magnitude)]
                            : magnitude \in
                                {(IF parts[1] = <<>> THEN 0
                                  ELSE 100 * DecimalValue(parts[1]))
                                 + Hundredths(frac)} })
                  ELSE [ok |-> FALSE, f |-> Num(0)]
                : frac \in {IF Len(parts) = 2 THEN parts[2] ELSE <<>>} })
         : parts \in {SplitAll(u, <<".">>)} })

PyFloat(s) ==
  Only({ IF t # <<>> /\ Head(t) \in {"-", "+"}
         THEN PyFloatUnsigned(Tail(t), Head(t) = "-")
         ELSE PyFloatUnsigned(t, FALSE)
       : t \in {Lower(Strip(s))} })

\* a < b on floats: every comparison with nan is false.
FloatLess(a, b) ==
  IF a.k = "nan" \/ b.k = "nan" THEN FALSE
  ELSE IF a.k = "ninf" THEN b.k # "ninf"
  ELSE IF a.k = "inf" THEN FALSE
  ELSE IF b.k = "inf" THEN TRUE
  ELSE IF b.k = "ninf" THEN FALSE
  ELSE a.v < b.v

\* min(a, b) and max(a, b) of Python: the first argument unless the second
\* is strictly smaller (larger).
PyMin(a, b) == IF FloatLess(b, a) THEN b ELSE a

PyMax(a, b) == IF FloatLess(a, b) THEN b ELSE a

\* The score returned as parsed, without line 60.
ClampOmitted(f) == f

\* max(-1.0, min(1.0, sentiment_score))
Clamp(f) == PyMax(Num(-100), PyMin(Num(100), f))

(***************************************************************************)
(* AIEnrichment.analyze_sentiment.  A collaborator response is             *)
(* [kind |-> "raise"] (the call raises), [kind |-> "none"] (a message      *)
(* without content, on which .strip() raises) or [kind |-> "text", text].  *)
(***************************************************************************)
WordPositive == <<"p", "o", "s", "i", "t", "i", "v", "e">>

WordNegative == <<"n", "e", "g", "a", "t", "i", "v", "e">>

analyze_sentiment(resp) ==
  IF resp.kind # "text" THEN Num(0)
  ELSE
    Only({ Only({ IF parsed.ok THEN Clamp(parsed.f)
                  ELSE IF Contains(Lower(sentiment_text), WordPositive) THEN Num(50)
                  ELSE IF Contains(Lower(sentiment_text), WordNegative) THEN Num(-50)
                  ELSE Num(0)
                : parsed \in {PyFloat(sentiment_text)} })
         : sentiment_text \in {Strip(resp.text)} })

(***************************************************************************)
(* JSON values as json.loads returns them, and the Python operations the   *)
(* code applies to them.                                                   *)
(***************************************************************************)
JArr(items) == [t |-> "array", items |-> items]

JStr(s) == [t |-> "string", s |-> s]

JNum(n) == [t |-> "number", n |-> n]

JNull == [t |-> "null"]

JObj(fields) == [t |-> "object", fields |-> fields]

\* dict.get(key, [])
JGet(obj, key) ==
  IF key \in DOMAIN obj.fields THEN obj.fields[key] ELSE JArr(<<>>)

\* bool(j)
JTruthy(j) ==
  CASE j.t = "array" -> j.items # <<>>
    [] j.t = "string" -> j.s # <<>>
    [] j.t = "number" -> j.n # 0
    [] j.t = "object" -> DOMAIN j.fields # {}
    [] j.t = "bool" -> j.b
    [] OTHER -> FALSE

\* j[0].lower() of a truthy j: raised is the TypeError, KeyError or
\* AttributeError of a value that is no list of strings.
JFirstLower(j) ==
  CASE j.t = "string" -> [raised |-> FALSE, s |-> Lower(<<j.s[1]>>)]
    [] j.t = "array" ->
         IF j.items[1].t = "string"
         THEN [raised |-> FALSE, s |-> Lower(j.items[1].s)]
         ELSE [raised |-> TRUE, s |-> <<>>]
    [] OTHER -> [raised |-> TRUE, s |-> <<>>]

EmptyEntities ==
  [persons |-> JArr(<<>>), organizations |-> JArr(<<>>),
   locations |-> JArr(<<>>), other |-> JArr(<<>>)]

(***************************************************************************)
(* AIEnrichment.extract_entities.  A response is raise, none, or           *)
(* [kind |-> "text", json]: json is [ok |-> FALSE] for a text json.loads   *)
(* rejects, else [ok |-> TRUE, value].  A value that is no object has no   *)
(* .get: the AttributeError reaches the outer except.                      *)
(***************************************************************************)
extract_entities(resp) ==
  IF resp.kind # "text" THEN EmptyEntities
  ELSE IF ~resp.json.ok THEN EmptyEntities
  ELSE IF resp.json.value.t # "object" THEN EmptyEntities
  ELSE [persons |-> JGet(resp.json.value, "persons"),
        organizations |-> JGet(resp.json.value, "organizations"),
        locations |-> JGet(resp.json.value, "locations"),
        other |-> JGet(resp.json.value, "other")]

WordMarketing == <<"m", "a", "r", "k", "e", "t", "i", "n", "g">>

WordOperations == <<"o", "p", "e", "r", "a", "t", "i", "o", "n", "s">>

WordFinance == <<"f", "i", "n", "a", "n", "c", "e">>

WordNorthAmerica == <<"n", "o", "r", "t", "h", " ", "a", "m", "e", "r", "i", "c", "a">>

WordUs == <<"u", "s">>

WordEurope == <<"e", "u", "r", "o", "p", "e">>

WordEmea == <<"e", "m", "e", "a">>

WordAsia == <<"a", "s", "i", "a">>

\* The department branch of enrich_utterances: keep is the field left alone.
DepartmentOf(organizations) ==
  IF ~JTruthy(organizations) THEN [raised |-> FALSE, keep |-> TRUE, value |-> ""]
  ELSE
    Only({ IF org.raised THEN [raised |-> TRUE, keep |-> TRUE, value |-> ""]
           ELSE [raised |-> FALSE, keep |-> FALSE,
                 value |-> IF Contains(org.s, WordMarketing) THEN "Marketing"
                           ELSE IF Contains(org.s, WordOperations) THEN "Operations"
                           ELSE IF Contains(org.s, WordFinance) THEN "Finance"
                           ELSE "General"]
         : org \in {JFirstLower(organizations)} })

\* The region branch of enrich_utterances.
RegionOf(locations) ==
  IF ~JTruthy(locations) THEN [raised |-> FALSE, keep |-> TRUE, value |-> ""]
  ELSE
    Only({ IF location.raised THEN [raised |-> TRUE, keep |-> TRUE, value |-> ""]
           ELSE [raised |-> FALSE, keep |-> FALSE,
                 value |-> IF Contains(location.s, WordNorthAmerica)
                              \/ Contains(location.s, WordUs) THEN "North America"
                           ELSE IF Contains(location.s, WordEurope)
                                   \/ Contains(location.s, WordEmea) THEN "EMEA"
                           ELSE IF Contains(location.s, WordAsia) THEN "Asia Pacific"
                           ELSE "Global"]
         : location \in {JFirstLower(locations)} })

\* The float stored as sentiment_score, in hundredths; nan and the
\* infinities are kept apart from every finite score.
ScoreOf(f) ==
  CASE f.k = "num" -> f.v
    [] f.k = "ninf" -> -1000000
    [] OTHER -> 1000000

\* The input dict written through, as it would be without the copy.
SharedWith(utterance, enriched_utterance) == enriched_utterance

\* Line 203, utterance.copy(): the input dict after the turn.  The writes of
\* lines 204-227 go to the copy.
CopiedFrom(utterance, enriched_utterance) == utterance

(***************************************************************************)
(* One turn of the loop of AIEnrichment.enrich_utterances: the enriched    *)
(* copy of the utterance, or raised when the turn raises.                  *)
(***************************************************************************)
EnrichOne(utterance, sresp, eresp) ==
  Only({ Only({ [raised |-> dept.raised \/ reg.raised,
                 utterance |->
                   [utterance EXCEPT
                      !.sentiment_score = ScoreOf(analyze_sentiment(sresp)),
                      !.has_entities = TRUE,
                      !.department = IF dept.keep THEN @ ELSE dept.value,
                      !.region = IF reg.keep THEN @ ELSE reg.value]]
              : dept \in {DepartmentOf(entities.organizations)},
                reg \in {RegionOf(entities.locations)} })
       : entities \in {extract_entities(eresp)} })

\* AIEnrichment.enrich_utterances on responses[i] = <<sentiment, entities>>.
RECURSIVE EnrichFrom(_, _, _, _)
EnrichFrom(utterances, responses, i, enriched) ==
  IF i > Len(utterances) THEN [raised |-> FALSE, enriched |-> enriched]
  ELSE
    Only({ IF e.raised THEN [raised |-> TRUE, enriched |-> enriched]
           ELSE EnrichFrom(utterances, responses, i + 1, Append(enriched, e.utterance))
         : e \in {EnrichOne(utterances[i], responses[i][1], responses[i][2])} })

enrich_utterances(utterances, responses) ==
  EnrichFrom(utterances, responses, 1, <<>>)

(***************************************************************************)
(* AIEnrichment.generate_topics.  failed_embedding is the number of the    *)
(* first embedding call that raises, 0 when none does.                     *)
(***************************************************************************)
topic_keywords ==
  <<
    [topic |-> "sugar_reduction",
     keywords |-> <<<<"s", "u", "g", "a", "r">>,
                    <<"s", "w", "e", "e", "t", "e", "n", "e", "r">>,
                    <<"l", "o", "w", " ", "s", "u", "g", "a", "r">>,
                    <<"z", "e", "r", "o", " ", "s", "u", "g", "a", "r">>>>],
    [topic |-> "packaging",
     keywords |-> <<<<"p", "a", "c", "k", "a", "g", "i", "n", "g">>,
                    <<"b", "o", "t", "t", "l", "e">>,
                    <<"c", "a", "n">>,
                    <<"c", "o", "n", "t", "a", "i", "n", "e", "r">>,
                    <<"r", "P", "E", "T">>>>],
    [topic |-> "sustainability",
     keywords |-> <<<<"s", "u", "s", "t", "a", "i", "n", "a", "b", "l", "e">>,
                    <<"e", "n", "v", "i", "r", "o", "n", "m", "e", "n", "t">>,
                    <<"c", "a", "r", "b", "o", "n">>,
                    <<"r", "e", "c", "y", "c", "l", "i", "n", "g">>>>],
    [topic |-> "market_trends",
     keywords |-> <<<<"m", "a", "r", "k", "e", "t">>,
                    <<"t", "r", "e", "n", "d">>,
                    <<"c", "o", "n", "s", "u", "m", "e", "r">>,
                    <<"d", "e", "m", "a", "n", "d">>>>],
    [topic |-> "operations",
     keywords |-> <<<<"p", "r", "o", "d", "u", "c", "t", "i", "o", "n">>,
                    <<"m", "a", "n", "u", "f", "a", "c", "t", "u", "r", "i", "n", "g">>,
                    <<"s", "u", "p", "p", "l", "y">>,
                    <<"l", "o", "g", "i", "s", "t", "i", "c", "s">>>>],
    [topic |-> "innovation",
     keywords |-> <<<<"i", "n", "n", "o", "v", "a", "t", "i", "o", "n">>,
                    <<"n", "e", "w", " ", "p", "r", "o", "d", "u", "c", "t">>,
                    <<"d", "e", "v", "e", "l", "o", "p", "m", "e", "n", "t">>,
                    <<"r", "e", "s", "e", "a", "r", "c", "h">>>>]
  >>

GeneralDiscussion == <<"general_discussion">>

RECURSIVE MatchedTopics(_, _)
MatchedTopics(table, combined_text) ==
  IF table = <<>> THEN <<>>
  ELSE (IF \E i \in 1..Len(Head(table).keywords) :
             Contains(combined_text, Head(table).keywords[i])
        THEN <<Head(table).topic>> ELSE <<>>)
       \o MatchedTopics(Tail(table), combined_text)

generate_topics(texts, failed_embedding) ==
  IF failed_embedding > 0 THEN GeneralDiscussion
  ELSE
    Only({ IF topics # <<>> THEN topics ELSE GeneralDiscussion
         : topics \in {MatchedTopics(topic_keywords, Lower(Join(texts, <<" ">>)))} })

\* AIEnrichment.summarize_meeting: the parsed JSON, or the fixed fallback on
\* any exception.
FallbackSummary == "Unable to generate summary"

summarize_meeting(resp) ==
  IF resp.kind = "text" /\ resp.json.ok THEN "collaborator_summary"
  ELSE FallbackSummary

(***************************************************************************)
(* ensure_datetime_format of the upload handler, on the texts that         *)
(* datetime.isoformat() writes: a text fromisoformat rejects is returned   *)
(* unchanged, a naive one gets a trailing Z, an aware one is rewritten     *)
(* with its offset.                                                        *)
(***************************************************************************)
UtcOffset == <<"+", "0", "0", ":", "0", "0">>

\* dt_value.replace('Z', '+00:00')
RECURSIVE ReplaceZ(_)
ReplaceZ(s) ==
  IF s = <<>> THEN <<>>
  ELSE (IF Head(s) = "Z" THEN UtcOffset ELSE <<Head(s)>>) \o ReplaceZ(Tail(s))

\* YYYY-MM-DD
IsIsoDate(s) ==
  /\ Len(s) = 10
  /\ AllDigits(SubSeq(s, 1, 4)) /\ s[5] = "-"
  /\ AllDigits(SubSeq(s, 6, 7)) /\ s[8] = "-"
  /\ AllDigits(SubSeq(s, 9, 10))

\* HH:MM:SS or HH:MM:SS.ffffff
IsIsoTime(s) ==
  /\ Len(s) \in {8, 15}
  /\ AllDigits(SubSeq(s, 1, 2)) /\ s[3] = ":"
  /\ AllDigits(SubSeq(s, 4, 5)) /\ s[6] = ":"
  /\ AllDigits(SubSeq(s, 7, 8))
  /\ Len(s) = 15 => s[9] = "." /\ AllDigits(SubSeq(s, 10, 15))

IsIsoNaive(s) ==
  \/ IsIsoDate(s)
  \/ /\ Len(s) > 11
     /\ IsIsoDate(SubSeq(s, 1, 10)) /\ s[11] = "T"
     /\ IsIsoTime(SubSeq(s, 12, Len(s)))

IsIsoAware(s) ==
  /\ Len(s) > 6
  /\ SubSeq(s, Len(s) - 5, Len(s)) = UtcOffset
  /\ IsIsoNaive(SubSeq(s, 1, Len(s) - 6))
  /\ ~IsIsoDate(SubSeq(s, 1, Len(s) - 6))

ensure_datetime_format(dt_value) ==
  Only({ IF IsIsoAware(r) THEN r
         ELSE IF IsIsoDate(r)
         THEN r \o <<"T", "0", "0", ":", "0", "0", ":", "0", "0", "Z">>
         ELSE IF IsIsoNaive(r) THEN r \o <<"Z">>
         ELSE dt_value
       : r \in {ReplaceZ(dt_value)} })

\* The document the upload handler hands to store_utterances (lines 160-169).
UploadDocument(utterance) ==
  [utterance EXCEPT
     !.created_at = ensure_datetime_format(@),
     !.updated_at = ensure_datetime_format(@),
     !.meeting_date = ensure_datetime_format(@),
     !.has_entities = FALSE]

(***************************************************************************)
(* The storage collaborators.  The search index keeps one document per     *)
(* key id (upload_documents replaces a document of the same id); the blob  *)
(* container keeps one text per blob name (overwrite=True).                *)
(***************************************************************************)
Range(f) == {f[i] : i \in DOMAIN f}

Upsert(index, documents) ==
  {x \in index : \A i \in 1..Len(documents) : documents[i].id # x.id}
    \cup Range(documents)

PutBlob(container, meeting_id, file_format, content) ==
  {b \in container : ~(b.meeting_id = meeting_id /\ b.format = file_format)}
    \cup {[meeting_id |-> meeting_id, format |-> file_format, content |-> content]}

(***************************************************************************)
(* Inputs: the caption lines, files, form fields and collaborator          *)
(* responses the requests are drawn from.                                  *)
(***************************************************************************)
LineHeader == <<"W", "E", "B", "V", "T", "T">>

LineBlank == <<>>

LineTimeShort == <<"0", "0", ":", "0", "1", ".", "0", "0", "0", " ", "-", "-", ">", " ", "0", "0", ":", "0", "2", ".", "0", "0", "0">>

LineTimeLong == <<"0", "0", ":", "0", "0", ":", "0", "3", ".", "0", "0", "0", " ", "-", "-", ">", " ", "0", "0", ":", "0", "0", ":", "0", "4", ".", "5", "0", "0">>

LineTimeTight == <<"0", "0", ":", "0", "5", ".", "0", "0", "0", "-", "-", ">", "0", "0", ":", "0", "6", ".", "0", "0", "0">>

LineAnn == <<"A", "n", "n", ":", " ", "c", "u", "t", " ", "s", "u", "g", "a", "r">>

LineBob == <<"B", "o", "b", ":", " ", "o", "k">>

LinePlain == <<"h", "i">>

NameVtt == <<"a", ".", "v", "t", "t">>

NameVttUpper == <<"B", ".", "V", "T", "T">>

NameDocx == <<"a", ".", "d", "o", "c", "x">>

NameTxt == <<"a", ".", "t", "x", "t">>

ExtVtt == <<"v", "t", "t">>

ExtDocx == <<"d", "o", "c", "x">>

DefaultMeetingDate == <<"2", "0", "2", "5", "-", "0", "1", "-", "0", "1">>

BareDate == <<"2", "0", "2", "5", "-", "0", "3", "-", "0", "9">>

RawDate == <<"s", "o", "o", "n">>

CurrentTime == <<"2", "0", "2", "6", "-", "0", "1", "-", "0", "5", "T", "1", "0", ":", "0", "0", ":", "0", "0", ".", "2", "5", "0", "0", "0", "0">>

TextHigh == <<"0", ".", "8">>

TextBelow == <<"-", "3">>

TextAbove == <<"2", ".", "5">>

TextNan == <<"N", "a", "N">>

TextPositive == <<"P", "o", "s", "i", "t", "i", "v", "e">>

TextMixed == <<"n", "o", "t", " ", "n", "e", "g", "a", "t", "i", "v", "e">>

TextGarbage == <<"n", "/", "a">>

OrgMarketing == <<"M", "a", "r", "k", "e", "t", "i", "n", "g", " ", "T", "e", "a", "m">>

OrgFinance == <<"f", "i", "n", "a", "n", "c", "e">>

LocUs == <<"U", "S">>

LocEurope == <<"E", "u", "r", "o", "p", "e">>

TextTwoCues ==
  <<LineHeader, LineBlank, LineTimeShort, LineAnn, LineBlank, LineTimeLong, LineBob>>

TextNoHeader == <<LineTimeLong, LinePlain>>

TextNoCue == <<LineHeader>>

\* A file of a multipart upload: its name, whether its bytes decode as
\* UTF-8, the decoded text, and the Word document the bytes hold.
NoDocument == [openable |-> FALSE, paragraphs |-> <<>>]

UploadFiles ==
  {[filename |-> NameVtt, utf8 |-> TRUE, text |-> TextTwoCues, doc |-> NoDocument],
   [filename |-> NameVttUpper, utf8 |-> TRUE, text |-> TextNoHeader, doc |-> NoDocument],
   [filename |-> NameVtt, utf8 |-> TRUE, text |-> TextNoCue, doc |-> NoDocument],
   [filename |-> NameVtt, utf8 |-> FALSE, text |-> <<>>, doc |-> NoDocument],
   [filename |-> NameDocx, utf8 |-> FALSE, text |-> <<>>, doc |-> NoDocument],
   [filename |-> NameDocx, utf8 |-> FALSE, text |-> <<>>,
    doc |-> [openable |-> TRUE, paragraphs |-> <<LineAnn, LinePlain>>]],
   [filename |-> NameDocx, utf8 |-> TRUE, text |-> <<LinePlain>>,
    doc |-> [openable |-> TRUE, paragraphs |-> <<LineBob>>]],
   [filename |-> NameTxt, utf8 |-> TRUE, text |-> <<LinePlain>>, doc |-> NoDocument],
   [filename |-> <<>>, utf8 |-> TRUE, text |-> <<LinePlain>>, doc |-> NoDocument]}

\* req.form.get('meeting_date', '2025-01-01')
FormDates == {DefaultMeetingDate, BareDate, RawDate, <<>>}

RaiseResponse == [kind |-> "raise"]

NoContentResponse == [kind |-> "none"]

TextResponse(text) == [kind |-> "text", text |-> text]

JsonResponse(value) == [kind |-> "text", json |-> [ok |-> TRUE, value |-> value]]

NotJsonResponse == [kind |-> "text", json |-> [ok |-> FALSE]]

\* What the collaborator may answer to the sentiment prompt.
SentimentResponses ==
  {RaiseResponse, NoContentResponse, TextResponse(TextHigh), TextResponse(TextBelow),
   TextResponse(TextAbove), TextResponse(TextNan), TextResponse(TextPositive),
   TextResponse(TextMixed), TextResponse(TextGarbage), TextResponse(<<>>)}

EntitiesMarketingUs ==
  JObj([x \in {"organizations", "locations"} |->
          IF x = "organizations" THEN JArr(<<JStr(OrgMarketing)>>)
          ELSE JArr(<<JStr(LocUs)>>)])

EntitiesFinanceOnly ==
  JObj([x \in {"organizations", "locations", "persons"} |->
          IF x = "organizations" THEN JArr(<<JStr(OrgFinance), JStr(OrgMarketing)>>)
          ELSE JArr(<<>>)])

EntitiesEuropeOnly == JObj([x \in {"locations"} |-> JArr(<<JStr(LocEurope)>>)])

EntitiesOrgNumber == JObj([x \in {"organizations"} |-> JNum(5)])

EntitiesOrgString == JObj([x \in {"organizations"} |-> JStr(OrgMarketing)])

EntitiesLocNumbers == JObj([x \in {"locations"} |-> JArr(<<JNum(7)>>)])

EntitiesLocNull == JObj([x \in {"locations", "organizations"} |-> JNull])

\* What the collaborator may answer to the entity prompt.
EntityResponses ==
  {RaiseResponse, NoContentResponse, NotJsonResponse,
   JsonResponse(JArr(<<JStr(OrgMarketing)>>)), JsonResponse(JNull),
   JsonResponse(EntitiesMarketingUs), JsonResponse(EntitiesFinanceOnly),
   JsonResponse(EntitiesEuropeOnly), JsonResponse(EntitiesOrgNumber),
   JsonResponse(EntitiesOrgString), JsonResponse(EntitiesLocNumbers),
   JsonResponse(EntitiesLocNull)}

\* The responses drawn while a request is served.
ServedSentimentResponses ==
  {RaiseResponse, TextResponse(TextHigh)}

ServedEntityResponses ==
  {RaiseResponse, JsonResponse(EntitiesMarketingUs), JsonResponse(EntitiesOrgNumber)}

SummaryResponses == {RaiseResponse, NotJsonResponse, JsonResponse(JNull)}

(***************************************************************************)
(* State.  One request is served from arrival to response; the search      *)
(* index and the blob container are what outlives it.                      *)
(***************************************************************************)
VARIABLES
  corpus,    \* the documents of the search index
  blobs,     \* the raw transcripts of the blob container
  uuids,     \* how many uuid4 values have been drawn
  pc,        \* where the handler stands
  req,       \* the request being served
  loc,       \* the handler's local variables
  response,  \* the response returned
  ghost      \* what the collaborators did during the request (history only)

vars == <<corpus, blobs, uuids, pc, req, loc, response, ghost>>

NoMeeting == [origin |-> "unknown", n |-> 0]

\* f"meeting-{uuid.uuid4().hex[:8]}"
UploadMeeting(n) == [origin |-> "upload", n |-> n]

\* The id after /communications/onlineMeetings/ in a notification's resource.
GraphMeeting(n) == [origin |-> "graph", n |-> n]

IdleLoc ==
  [meeting_id |-> NoMeeting,
   has_meeting_id |-> FALSE,
   transcript |-> <<>>,
   utterances |-> <<>>,
   normalized_utterances |-> <<>>,
   enriched_utterances |-> <<>>,
   topics |-> <<>>,
   meeting_summary |-> "",
   result |-> FALSE,
   k |-> 0,
   processed_meetings |-> <<>>]

\* own: what each utterance's own responses derive; answered / raised:
\* whether some enrichment call returned / raised; faults: the storage and
\* construction failures met.
IdleGhost == [own |-> <<>>, answered |-> FALSE, raised |-> FALSE, faults |-> {}]

NoResponse == [status |-> 0, kind |-> "none"]

\* filename.lower().split('.')[-1]
FileExtension(filename) ==
  LET parts == SplitAll(Lower(filename), <<".">>) IN parts[Len(parts)]

Texts(utterances) == [i \in 1..Len(utterances) |-> utterances[i].content]

Stamp(utterances, topics) ==
  [i \in 1..Len(utterances) |-> [utterances[i] EXCEPT !.topics = topics]]

\* The values an utterance's own collaborator responses derive for it.
OwnValues(e) ==
  [sentiment_score |-> e.utterance.sentiment_score,
   department |-> e.utterance.department,
   region |-> e.utterance.region,
   failed |-> e.raised]

CallsGhost(g, sresp, eresp) ==
  [g EXCEPT !.answered = @ \/ sresp.kind # "raise" \/ eresp.kind # "raise",
            !.raised = @ \/ sresp.kind = "raise" \/ eresp.kind = "raise"]

EmbeddingGhost(g, n, failed_embedding) ==
  [g EXCEPT !.answered = @ \/ failed_embedding > 1 \/ (failed_embedding = 0 /\ n > 0),
            !.raised = @ \/ failed_embedding > 0]

(***************************************************************************)
(* The search index before the request: empty, or holding the documents    *)
(* of an earlier upload of the two-cue transcript.                         *)
(***************************************************************************)
SeedMeeting == UploadMeeting(1)

SeedDocuments ==
  Only({ [i \in 1..Len(enriched) |->
            UploadDocument(Stamp(enriched, generate_topics(Texts(enriched), 0))[i])]
       : enriched \in
           {enrich_utterances(
              normalize_utterances(parse_vtt(TextTwoCues, 1), SeedMeeting,
                                   BareDate, CurrentTime),
              <<<<TextResponse(TextHigh), JsonResponse(EntitiesMarketingUs)>>,
                <<TextResponse(TextBelow), RaiseResponse>>>>).enriched} })

SeedUuids == 1 + Len(SeedDocuments)

Init ==
  /\ \E seeded \in BOOLEAN :
       /\ corpus = IF seeded THEN Range(SeedDocuments) ELSE {}
       /\ blobs = IF seeded THEN PutBlob({}, SeedMeeting, ExtVtt, TextTwoCues) ELSE {}
       /\ uuids = IF seeded THEN SeedUuids ELSE 0
  /\ pc = "idle"
  /\ req = [handler |-> "none"]
  /\ loc = IdleLoc
  /\ response = NoResponse
  /\ ghost = IdleGhost

\* return func.HttpResponse(...)
Respond(r) == response' = r /\ pc' = "done"

ErrorResponse(status, error) == [status |-> status, kind |-> "error", error |-> error]

\* The outer except of a handler: the 500 response.
InternalError == ErrorResponse(500, "Internal server error")

(***************************************************************************)
(* upload: src/upload/__init__.py main.                                    *)
(***************************************************************************)
\* Lines 47-79: the request arrives, the file and its type are checked and
\* the meeting id is drawn.
UploadArrives ==
  /\ pc = "idle"
  /\ \E files \in {<<>>} \cup {<<f>> : f \in UploadFiles}, date \in FormDates :
       /\ req' = [handler |-> "upload", files |-> files, meeting_date |-> date]
       /\ ghost' = IdleGhost
       /\ IF files = <<>>
          THEN /\ Respond(ErrorResponse(400, "No file uploaded"))
               /\ UNCHANGED <<loc, uuids>>
          ELSE IF ~Truthy(files[1].filename)
          THEN /\ Respond(ErrorResponse(400, "No filename provided"))
               /\ UNCHANGED <<loc, uuids>>
          ELSE IF FileExtension(files[1].filename) \notin {ExtVtt, ExtDocx}
          THEN /\ Respond(ErrorResponse(400, "Unsupported file type"))
               /\ UNCHANGED <<loc, uuids>>
          ELSE /\ loc' = [IdleLoc EXCEPT !.meeting_id = UploadMeeting(uuids + 1),
                                         !.has_meeting_id = TRUE]
               /\ uuids' = uuids + 1
               /\ pc' = "u_parse"
               /\ UNCHANGED response
  /\ UNCHANGED <<corpus, blobs>>

\* Lines 81-95: decode and parse; no utterance is a 400, an exception the 500.
UploadParse ==
  /\ pc = "u_parse"
  /\ \E parsed \in
          {IF FileExtension(req.files[1].filename) = ExtVtt
           THEN (IF req.files[1].utf8
                 THEN [raised |-> FALSE,
                       utterances |-> parse_vtt(req.files[1].text, uuids)]
                 ELSE [raised |-> TRUE, utterances |-> <<>>])
           ELSE parse_docx(req.files[1].doc, uuids)} :
       IF parsed.raised
       THEN Respond(InternalError) /\ UNCHANGED <<loc, uuids>>
       ELSE IF parsed.utterances = <<>>
       THEN /\ Respond(ErrorResponse(400, "No utterances found in transcript"))
            /\ UNCHANGED <<loc, uuids>>
       ELSE /\ loc' = [loc EXCEPT !.utterances = parsed.utterances]
            /\ uuids' = uuids + Len(parsed.utterances)
            /\ pc' = "u_normalize"
            /\ UNCHANGED response
  /\ UNCHANGED <<corpus, blobs, req, ghost>>

\* Lines 97-101.
UploadNormalize ==
  /\ pc = "u_normalize"
  /\ loc' = [loc EXCEPT !.normalized_utterances =
               normalize_utterances(loc.utterances, loc.meeting_id,
                                    req.meeting_date, CurrentTime)]
  /\ pc' = "u_construct"
  /\ UNCHANGED <<corpus, blobs, uuids, req, response, ghost>>

\* The except keeping only the utterances enriched before the exception.
UploadFallbackPartial(l) ==
  [l EXCEPT !.topics = GeneralDiscussion, !.meeting_summary = FallbackSummary]

\* Lines 127-134, the except of the enrichment block: the normalized
\* utterances are kept as they are; topics is set for the response only.
UploadFallback(l) ==
  [l EXCEPT !.enriched_utterances = l.normalized_utterances,
            !.topics = GeneralDiscussion,
            !.meeting_summary = FallbackSummary]

\* Line 106: AIEnrichment() re-raises what the client constructor raises.
UploadConstruct ==
  /\ pc = "u_construct"
  /\ \E ok \in BOOLEAN :
       IF ok
       THEN pc' = "u_enrich" /\ UNCHANGED <<loc, ghost>>
       ELSE /\ loc' = UploadFallback(loc)
            /\ ghost' = [ghost EXCEPT !.faults = @ \cup {"enrichment_init"}]
            /\ pc' = "u_storage"
  /\ UNCHANGED <<corpus, blobs, uuids, req, response>>

\* Line 110, one turn of the loop of enrich_utterances.  A turn that raises
\* leaves enrich_utterances and lands in the except of line 127.
UploadEnrichTurn ==
  /\ pc = "u_enrich"
  /\ \E sresp \in ServedSentimentResponses, eresp \in ServedEntityResponses :
       \E i \in {Len(loc.enriched_utterances) + 1} :
       \E e \in {EnrichOne(loc.normalized_utterances[i], sresp, eresp)} :
          /\ ghost' = [CallsGhost(ghost, sresp, eresp) EXCEPT
                         !.own = Append(@, OwnValues(e))]
          /\ IF e.raised
             THEN loc' = UploadFallback(loc) /\ pc' = "u_storage"
             ELSE /\ loc' = [loc EXCEPT
                               !.enriched_utterances = Append(@, e.utterance),
                               !.normalized_utterances[i] = CopiedFrom(@, e.utterance)]
                  /\ pc' = IF i = Len(loc.normalized_utterances) THEN "u_topics"
                           ELSE "u_enrich"
  /\ UNCHANGED <<corpus, blobs, uuids, req, response>>

\* Lines 112-120: the meeting's topics, set on every enriched utterance.
UploadTopics ==
  /\ pc = "u_topics"
  /\ \E failed_embedding \in 0..Len(loc.enriched_utterances) :
       \E topics \in {generate_topics(Texts(loc.enriched_utterances),
                                       failed_embedding)} :
          /\ loc' = [loc EXCEPT !.topics = topics,
                                !.enriched_utterances = Stamp(@, topics)]
          /\ ghost' = EmbeddingGhost(ghost, Len(loc.enriched_utterances),
                                     failed_embedding)
  /\ pc' = "u_summary"
  /\ UNCHANGED <<corpus, blobs, uuids, req, response>>

\* Lines 122-125.
UploadSummary ==
  /\ pc = "u_summary"
  /\ \E resp \in SummaryResponses :
       /\ loc' = [loc EXCEPT !.meeting_summary = summarize_meeting(resp)]
       /\ ghost' = [ghost EXCEPT !.answered = @ \/ resp.kind # "raise",
                                 !.raised = @ \/ resp.kind = "raise"]
  /\ pc' = "u_storage"
  /\ UNCHANGED <<corpus, blobs, uuids, req, response>>

\* Lines 136-148: DataStorage() raises on a configuration its clients
\* reject; what create_search_index raises or returns is only logged.
UploadOpenStorage ==
  /\ pc = "u_storage"
  /\ \E ok \in BOOLEAN :
       IF ok
       THEN pc' = "u_store_transcript" /\ UNCHANGED <<response, ghost>>
       ELSE /\ Respond(InternalError)
            /\ ghost' = [ghost EXCEPT !.faults = @ \cup {"storage_init"}]
  /\ UNCHANGED <<corpus, blobs, uuids, req, loc>>

\* Lines 150-152: a .docx file's bytes are decoded as UTF-8 here;
\* store_transcript returns False on a failed write and the value is dropped.
UploadStoreTranscript ==
  /\ pc = "u_store_transcript"
  /\ \E file \in {req.files[1]}, extension \in {FileExtension(req.files[1].filename)} :
        IF extension # ExtVtt /\ ~file.utf8
        THEN Respond(InternalError) /\ UNCHANGED <<blobs, ghost>>
        ELSE \E written \in BOOLEAN :
               /\ blobs' = IF written
                           THEN PutBlob(blobs, loc.meeting_id, extension, file.text)
                           ELSE blobs
               /\ ghost' = IF written THEN ghost
                           ELSE [ghost EXCEPT !.faults = @ \cup {"blob_write"}]
               /\ pc' = "u_store_utterances"
               /\ UNCHANGED response
  /\ UNCHANGED <<corpus, uuids, req, loc>>

\* DataStorage.store_utterances: True, or False when upload_documents raises.
store_utterances(index, documents, written) ==
  [result |-> written,
   index |-> IF written THEN Upsert(index, documents) ELSE index]

\* Lines 154-193: the documents are fixed in place and stored, and the
\* success response is returned whatever store_utterances returned.
UploadStoreUtterances ==
  /\ pc = "u_store_utterances"
  /\ \E written \in BOOLEAN :
       \E documents \in {[i \in 1..Len(loc.enriched_utterances) |->
                             UploadDocument(loc.enriched_utterances[i])]} :
       \E stored \in {store_utterances(corpus, documents, written)} :
          /\ corpus' = stored.index
          /\ loc' = [loc EXCEPT !.enriched_utterances = documents,
                                !.result = stored.result]
          /\ ghost' = IF written THEN ghost
                      ELSE [ghost EXCEPT !.faults = @ \cup {"index_write"}]
          /\ Respond([status |-> 200, kind |-> "upload",
                      meeting_id |-> loc.meeting_id,
                      utterances_count |-> Len(documents),
                      topics |-> loc.topics,
                      summary |-> loc.meeting_summary,
                      outcome |-> "success"])
  /\ UNCHANGED <<blobs, uuids, req>>

(***************************************************************************)
(* hooks/graph: src/hooks/graph/__init__.py main.  A notification is       *)
(* [dict, meeting]: dict = FALSE is a JSON value without .get, meeting = 0 *)
(* a resource that names no online meeting.                                *)
(***************************************************************************)
Notifications ==
  {[dict |-> FALSE, meeting |-> 0]} \cup {[dict |-> TRUE, meeting |-> n] : n \in 0..2}

NotificationLists ==
  UNION {[1..n -> Notifications] : n \in 0..MaxNotifications}

\* The body of a POST: no JSON, a JSON value that is no object, or an object.
HookBodies ==
  {[json |-> FALSE, object |-> FALSE, value |-> <<>>],
   [json |-> TRUE, object |-> FALSE, value |-> <<>>]}
    \cup {[json |-> TRUE, object |-> TRUE, value |-> v] : v \in NotificationLists}

\* The transcripts Graph may return for a recording.
HookTranscripts == {TextNoHeader, TextNoCue}

\* Lines 89-107: validation GET, unknown method, and the body of a POST.
HookArrives ==
  /\ pc = "idle"
  /\ ghost' = IdleGhost
  /\ \/ \E token \in BOOLEAN :
          /\ req' = [handler |-> "graph", method |-> "GET", token |-> token]
          /\ Respond(IF token THEN [status |-> 200, kind |-> "validation"]
                     ELSE ErrorResponse(400, "Validation token required"))
          /\ UNCHANGED loc
     \/ /\ req' = [handler |-> "graph", method |-> "PUT"]
        /\ Respond(ErrorResponse(405, "Method not allowed"))
        /\ UNCHANGED loc
     \/ \E body \in HookBodies :
          /\ req' = [handler |-> "graph", method |-> "POST", body |-> body]
          /\ IF ~body.json
             THEN Respond(ErrorResponse(400, "Invalid JSON")) /\ UNCHANGED loc
             ELSE IF ~body.object
             THEN Respond(InternalError) /\ UNCHANGED loc
             ELSE loc' = IdleLoc /\ pc' = "h_next" /\ UNCHANGED response
  /\ UNCHANGED <<corpus, blobs, uuids>>

\* Lines 157-163, the except of one notification: meeting_id is the local
\* of main, which keeps the value an earlier notification gave it.
HookFailed(l) ==
  [l EXCEPT !.processed_meetings =
     Append(@, [meeting_id |-> IF l.has_meeting_id THEN l.meeting_id ELSE NoMeeting,
                status |-> "error"])]

\* Lines 109-116: the next notification of the loop.
HookNext ==
  /\ pc = "h_next"
  /\ loc.k < Len(req.body.value)
  /\ \E notification \in {req.body.value[loc.k + 1]}, l \in {[loc EXCEPT !.k = @ + 1]} :
        IF ~notification.dict
        THEN loc' = HookFailed(l) /\ pc' = "h_next"
        ELSE IF notification.meeting = 0
        THEN loc' = l /\ pc' = "h_next"
        ELSE /\ loc' = [l EXCEPT !.meeting_id = GraphMeeting(notification.meeting),
                                 !.has_meeting_id = TRUE]
             /\ pc' = "h_fetch"
  /\ ghost' = [ghost EXCEPT !.own = <<>>, !.answered = FALSE, !.raised = FALSE]
  /\ UNCHANGED <<corpus, blobs, uuids, req, response>>

\* Lines 118-122: the token and the transcript; either call may raise.
HookFetch ==
  /\ pc = "h_fetch"
  /\ \/ loc' = HookFailed(loc) /\ pc' = "h_next"
     \/ \E text \in HookTranscripts :
          loc' = [loc EXCEPT !.transcript = text] /\ pc' = "h_parse"
  /\ UNCHANGED <<corpus, blobs, uuids, req, response, ghost>>

\* Lines 124-132: parse and normalize; a transcript without utterances is
\* skipped.  No meeting date is passed.
HookParse ==
  /\ pc = "h_parse"
  /\ \E utterances \in {parse_vtt(loc.transcript, uuids)} :
       IF utterances = <<>>
       THEN pc' = "h_next" /\ UNCHANGED <<loc, uuids>>
       ELSE /\ loc' = [loc EXCEPT
                         !.utterances = utterances,
                         !.normalized_utterances =
                           normalize_utterances(utterances, loc.meeting_id,
                                                PyNone, CurrentTime),
                         !.enriched_utterances = <<>>]
            /\ uuids' = uuids + Len(utterances)
            /\ pc' = "h_construct"
  /\ UNCHANGED <<corpus, blobs, req, response, ghost>>

\* Line 135: AIEnrichment() inside the notification's try.
HookConstruct ==
  /\ pc = "h_construct"
  /\ \E ok \in BOOLEAN :
       IF ok
       THEN pc' = "h_enrich" /\ UNCHANGED <<loc, ghost>>
       ELSE /\ loc' = HookFailed(loc)
            /\ ghost' = [ghost EXCEPT !.faults = @ \cup {"enrichment_init"}]
            /\ pc' = "h_next"
  /\ UNCHANGED <<corpus, blobs, uuids, req, response>>

\* Line 136, one turn of the loop of enrich_utterances.
HookEnrichTurn ==
  /\ pc = "h_enrich"
  /\ \E sresp \in ServedSentimentResponses, eresp \in ServedEntityResponses :
       \E i \in {Len(loc.enriched_utterances) + 1} :
       \E e \in {EnrichOne(loc.normalized_utterances[i], sresp, eresp)} :
          /\ ghost' = [CallsGhost(ghost, sresp, eresp) EXCEPT
                         !.own = Append(@, OwnValues(e))]
          /\ IF e.raised
             THEN loc' = HookFailed(loc) /\ pc' = "h_next"
             ELSE /\ loc' = [loc EXCEPT
                               !.enriched_utterances = Append(@, e.utterance),
                               !.normalized_utterances[i] = CopiedFrom(@, e.utterance)]
                  /\ pc' = IF i = Len(loc.normalized_utterances) THEN "h_topics"
                           ELSE "h_enrich"
  /\ UNCHANGED <<corpus, blobs, uuids, req, response>>

\* Lines 138-144.
HookTopics ==
  /\ pc = "h_topics"
  /\ \E failed_embedding \in 0..Len(loc.enriched_utterances) :
       \E topics \in {generate_topics(Texts(loc.enriched_utterances),
                                       failed_embedding)} :
          /\ loc' = [loc EXCEPT !.topics = topics,
                                !.enriched_utterances = Stamp(@, topics)]
          /\ ghost' = EmbeddingGhost(ghost, Len(loc.enriched_utterances),
                                     failed_embedding)
  /\ pc' = "h_store"
  /\ UNCHANGED <<corpus, blobs, uuids, req, response>>

\* Lines 146-155: DataStorage() may raise; the two writes return False on a
\* failure and the notification is reported as a success either way.
HookStore ==
  /\ pc = "h_store"
  /\ \/ /\ loc' = HookFailed(loc)
        /\ ghost' = [ghost EXCEPT !.faults = @ \cup {"storage_init"}]
        /\ UNCHANGED <<corpus, blobs>>
     \/ \E blob_written \in BOOLEAN, written \in BOOLEAN :
          \E stored \in {store_utterances(corpus, loc.enriched_utterances, written)} :
             /\ blobs' = IF blob_written
                         THEN PutBlob(blobs, loc.meeting_id, ExtVtt, loc.transcript)
                         ELSE blobs
             /\ corpus' = stored.index
             /\ ghost' = [ghost EXCEPT !.faults =
                            @ \cup (IF blob_written THEN {} ELSE {"blob_write"})
                              \cup (IF written THEN {} ELSE {"index_write"})]
             /\ loc' = [loc EXCEPT !.processed_meetings =
                          Append(@, [meeting_id |-> loc.meeting_id,
                                     utterances_count |-> Len(loc.enriched_utterances),
                                     status |-> "success"])]
  /\ pc' = "h_next"
  /\ UNCHANGED <<uuids, req, response>>

\* Lines 165-172.
HookRespond ==
  /\ pc = "h_next"
  /\ loc.k = Len(req.body.value)
  /\ Respond([status |-> 200, kind |-> "graph",
              processed_meetings |-> loc.processed_meetings,
              total_notifications |-> Len(req.body.value)])
  /\ UNCHANGED <<corpus, blobs, uuids, req, loc, ghost>>

(***************************************************************************)
(* The read endpoints.  search_utterances returns what the index returns,  *)
(* or [] when the query raises.                                            *)
(***************************************************************************)
RECURSIVE InIdOrder(_)
InIdOrder(documents) ==
  IF documents = {} THEN <<>>
  ELSE LET first == CHOOSE x \in documents : \A y \in documents : x.id <= y.id
       IN <<first>> \o InIdOrder(documents \ {first})

search_utterances(index, answered) ==
  IF answered THEN InIdOrder(index) ELSE <<>>

\* insights_utterances main, insights_trends main and insights_speakers
\* main: DataStorage() raising is the 500 of the outer except; the last two
\* ask a function key of a caller that is not local.
ReadRequest ==
  /\ pc = "idle"
  /\ \E handler \in {"insights_utterances", "insights_trends", "insights_speakers"},
        authorized \in BOOLEAN, constructed \in BOOLEAN, answered \in BOOLEAN :
       /\ req' = [handler |-> handler, authorized |-> authorized]
       /\ IF handler # "insights_utterances" /\ ~authorized
          THEN Respond(ErrorResponse(401, "Function key required")) /\ ghost' = IdleGhost
          ELSE IF ~constructed
          THEN /\ Respond(InternalError)
               /\ ghost' = [IdleGhost EXCEPT !.faults = {"storage_init"}]
          ELSE /\ Respond([status |-> 200, kind |-> handler,
                           retrieved |-> Len(search_utterances(corpus, answered))])
               /\ ghost' = [IdleGhost EXCEPT !.faults =
                              IF answered THEN {} ELSE {"index_read"}]
  /\ UNCHANGED <<corpus, blobs, uuids, loc>>

Next ==
  \/ UploadArrives
  \/ UploadParse
  \/ UploadNormalize
  \/ UploadConstruct
  \/ UploadEnrichTurn
  \/ UploadTopics
  \/ UploadSummary
  \/ UploadOpenStorage
  \/ UploadStoreTranscript
  \/ UploadStoreUtterances
  \/ HookArrives
  \/ HookNext
  \/ HookFetch
  \/ HookParse
  \/ HookConstruct
  \/ HookEnrichTurn
  \/ HookTopics
  \/ HookStore
  \/ HookRespond
  \/ ReadRequest

Spec == Init /\ [][Next]_vars

(***************************************************************************)
(* The caption parser on its own: parse_vtt is called on every text of at  *)
(* most MaxLines lines over ParseLines, and the while loop of the fallback *)
(* is followed turn by turn.                                               *)
(***************************************************************************)
ParseLines == {LineHeader, LineBlank, LineTimeShort, LineTimeTight, LineAnn, LinePlain}

ParseTexts == UNION {[1..n -> ParseLines] : n \in 0..MaxLines}

ParseLoc == [utterances |-> <<>>, raised |-> FALSE, st |-> [i |-> 1, out |-> <<>>]]

InitParse ==
  /\ corpus = {}
  /\ blobs = {}
  /\ uuids = 0
  /\ pc = "idle"
  /\ req = [handler |-> "none"]
  /\ loc = ParseLoc
  /\ response = NoResponse
  /\ ghost = IdleGhost

\* parse_vtt is called on a text.
ParseCalled ==
  /\ pc = "idle"
  /\ \E text \in ParseTexts : req' = [handler |-> "parse_vtt", text |-> text]
  /\ pc' = "p_call"
  /\ UNCHANGED <<corpus, blobs, uuids, loc, response, ghost>>

\* parse_vtt, lines 44-81: the library call and the loop over its captions,
\* or the jump to the except.
ParseVtt ==
  /\ pc = "p_call"
  /\ \E vtt \in {WebVttFromString(req.text)} :
       IF vtt.raised
       THEN loc' = [loc EXCEPT !.raised = TRUE] /\ pc' = "p_fallback"
       ELSE /\ loc' = [loc EXCEPT !.utterances =
                         PrimaryUtterances(vtt.captions, uuids, <<>>)]
            /\ pc' = "p_return"
  /\ UNCHANGED <<corpus, blobs, uuids, req, response, ghost>>

\* One turn of the while loop of _parse_vtt_fallback.
FallbackTurn ==
  /\ pc = "p_fallback"
  /\ loc.st.i <= Len(req.text)
  /\ loc' = [loc EXCEPT !.st = FallbackStep(req.text, uuids, @)]
  /\ UNCHANGED <<corpus, blobs, uuids, pc, req, response, ghost>>

\* The loop is left and line 84 assigns the fallback's list to utterances.
FallbackReturn ==
  /\ pc = "p_fallback"
  /\ loc.st.i > Len(req.text)
  /\ loc' = [loc EXCEPT !.utterances = loc.st.out]
  /\ pc' = "p_return"
  /\ UNCHANGED <<corpus, blobs, uuids, req, response, ghost>>

NextParse ==
  \/ ParseCalled
  \/ ParseVtt
  \/ FallbackTurn
  \/ FallbackReturn

\* The interpreter keeps running the call it has started.
SpecParse ==
  /\ InitParse
  /\ [][NextParse]_vars
  /\ WF_vars(ParseVtt) /\ WF_vars(FallbackTurn) /\ WF_vars(FallbackReturn)

(***************************************************************************)
(* The enrichment loop on its own: enrich_utterances on a normalized batch *)
(* with every answer the collaborator may give to each of its two prompts. *)
(***************************************************************************)
EnrichBatches ==
  {normalize_utterances(parse_vtt(text, 0), SeedMeeting, BareDate, CurrentTime) :
     text \in {TextTwoCues, TextNoHeader}}

EnrichLoc ==
  [enriched_utterances |-> <<>>, sresp |-> RaiseResponse, eresp |-> RaiseResponse,
   sentiment_score |-> Num(0)]

InitEnrich ==
  /\ corpus = {}
  /\ blobs = {}
  /\ uuids = 0
  /\ pc = "e_ask"
  /\ req \in {[handler |-> "enrich_utterances", utterances |-> batch] :
                batch \in EnrichBatches}
  /\ loc = EnrichLoc
  /\ response = NoResponse
  /\ ghost = IdleGhost

\* The collaborator's outcomes on the two prompts of the next utterance.
CollaboratorAnswers ==
  /\ pc = "e_ask"
  /\ \E sresp \in SentimentResponses, eresp \in EntityResponses :
       loc' = [loc EXCEPT !.sresp = sresp, !.eresp = eresp]
  /\ pc' = "e_turn"
  /\ UNCHANGED <<corpus, blobs, uuids, req, response, ghost>>

\* Lines 200-229, one turn of the loop; an exception leaves the function.
EnrichTurn ==
  /\ pc = "e_turn"
  /\ \E i \in {Len(loc.enriched_utterances) + 1} :
     \E e \in {EnrichOne(req.utterances[i], loc.sresp, loc.eresp)} :
       /\ loc' = [loc EXCEPT
                    !.sentiment_score = analyze_sentiment(loc.sresp),
                    !.enriched_utterances = IF e.raised THEN @ ELSE Append(@, e.utterance)]
       /\ req' = [req EXCEPT !.utterances[i] = CopiedFrom(@, e.utterance)]
       /\ pc' = IF e.raised THEN "e_raised"
                ELSE IF i = Len(req.utterances) THEN "e_returned" ELSE "e_ask"
  /\ UNCHANGED <<corpus, blobs, uuids, response, ghost>>

NextEnrich ==
  \/ CollaboratorAnswers
  \/ EnrichTurn

SpecEnrich == InitEnrich /\ [][NextEnrich]_vars

(***************************************************************************)
(* time_to_seconds on its own: the end of one cue and the start of another *)
(* are converted, over the timing texts a caption file may hold (with and  *)
(* without the hours field, with one to three digits after the '.').       *)
(***************************************************************************)
TimeFields == {<<"0", "0">>, <<"0", "6">>, <<"1", "0">>}

TimeFractions == {<<"0", "0", "0">>, <<"5", "0", "0">>, <<"5">>, <<"2", "5">>}

TimeStrings ==
  {hh \o <<":">> \o mm \o <<":">> \o ss \o <<".">> \o ms :
     hh \in {<<"0", "0">>}, mm \in TimeFields, ss \in TimeFields, ms \in TimeFractions}
  \cup
  {mm \o <<":">> \o ss \o <<".">> \o ms :
     mm \in TimeFields, ss \in TimeFields, ms \in {<<"0", "0", "0">>}}

TimeLoc == [end_seconds |-> 0, start_seconds |-> 0]

InitTime ==
  /\ corpus = {}
  /\ blobs = {}
  /\ uuids = 0
  /\ pc = "idle"
  /\ req = [handler |-> "none"]
  /\ loc = TimeLoc
  /\ response = NoResponse
  /\ ghost = IdleGhost

\* The end of cue A and the start of cue B are handed to time_to_seconds.
TimeCalled ==
  /\ pc = "idle"
  /\ \E end_time \in TimeStrings, start_time \in TimeStrings :
       req' = [handler |-> "time_to_seconds", end_time |-> end_time,
               start_time |-> start_time]
  /\ pc' = "t_call"
  /\ UNCHANGED <<corpus, blobs, uuids, loc, response, ghost>>

TimeConverted ==
  /\ pc = "t_call"
  /\ loc' = [end_seconds |-> time_to_seconds(req.end_time),
             start_seconds |-> time_to_seconds(req.start_time)]
  /\ pc' = "t_return"
  /\ UNCHANGED <<corpus, blobs, uuids, req, response, ghost>>

NextTime ==
  \/ TimeCalled
  \/ TimeConverted

SpecTime == InitTime /\ [][NextTime]_vars

(***************************************************************************)
(* generate_topics on its own: it is called twice on the same utterance    *)
(* texts, each call with its own outcome of the embedding requests.        *)
(***************************************************************************)
MaxTexts == 2

TopicTexts ==
  {<<"h", "e", "l", "l", "o">>,
   <<"L", "e", "s", "s", " ", "S", "u", "g", "a", "r">>,
   <<"r", "P", "E", "T">>,
   <<"s", "u", "p", "p", "l", "y">>,
   <<"n", "e", "w">>,
   <<"p", "r", "o", "d", "u", "c", "t">>}

TopicBatches == UNION {[1..n -> TopicTexts] : n \in 0..MaxTexts}

TopicsLoc == [first |-> <<>>, second |-> <<>>]

InitTopics ==
  /\ corpus = {}
  /\ blobs = {}
  /\ uuids = 0
  /\ pc = "idle"
  /\ req = [handler |-> "none"]
  /\ loc = TopicsLoc
  /\ response = NoResponse
  /\ ghost = IdleGhost

\* failed_first, failed_second: the number of the embedding request that
\* raises in the first and in the second call, 0 when none does.
TopicsCalled ==
  /\ pc = "idle"
  /\ \E texts \in TopicBatches :
       \E failed_first \in 0..Len(texts), failed_second \in 0..Len(texts) :
         req' = [handler |-> "generate_topics", texts |-> texts,
                 failed_first |-> failed_first, failed_second |-> failed_second]
  /\ pc' = "g_first"
  /\ UNCHANGED <<corpus, blobs, uuids, loc, response, ghost>>

TopicsFirst ==
  /\ pc = "g_first"
  /\ loc' = [loc EXCEPT !.first = generate_topics(req.texts, req.failed_first)]
  /\ pc' = "g_second"
  /\ UNCHANGED <<corpus, blobs, uuids, req, response, ghost>>

TopicsSecond ==
  /\ pc = "g_second"
  /\ loc' = [loc EXCEPT !.second = generate_topics(req.texts, req.failed_second)]
  /\ pc' = "g_return"
  /\ UNCHANGED <<corpus, blobs, uuids, req, response, ghost>>

NextTopics ==
  \/ TopicsCalled
  \/ TopicsFirst
  \/ TopicsSecond

SpecTopics == InitTopics /\ [][NextTopics]_vars

(***************************************************************************)
(* The read side.  A query string is [present, from, to, topicsCsv, ...]:  *)
(* present holds the names the request carries.  The filters dict built by *)
(* the three handlers is [present, from_date, ...] in the same way.        *)
(***************************************************************************)
NoFilters ==
  [present |-> {}, from_date |-> <<>>, to_date |-> <<>>, speaker |-> <<>>,
   department |-> <<>>, region |-> <<>>, topics |-> <<>>,
   sentiment_min |-> Num(0), sentiment_max |-> Num(0)]

\* insights_utterances main, lines 22-43; the same statements are lines
\* 39-60 of insights_trends and 40-61 of insights_speakers.
HandlerFilters(params) ==
  Only({
  [NoFilters EXCEPT
     !.present =
        {k \in {"from_date"} : "from" \in params.present}
        \cup {k \in {"to_date"} : "to" \in params.present}
        \cup {k \in {"topics"} : "topicsCsv" \in params.present}
        \cup {k \in {"region"} : "region" \in params.present}
        \cup {k \in {"department"} : "department" \in params.present}
        \cup {k \in {"sentiment_min"} : "sentiment_min" \in params.present /\ smin.ok}
        \cup {k \in {"sentiment_max"} : "sentiment_max" \in params.present /\ smax.ok},
     !.from_date = params.from,
     !.to_date = params.to,
     !.topics = IF "topicsCsv" \in params.present
                THEN SplitAll(params.topicsCsv, <<",">>) ELSE <<>>,
     !.region = params.region,
     !.department = params.department,
     !.sentiment_min = smin.f,
     !.sentiment_max = smax.f]
  : smin \in {PyFloat(params.sentiment_min)}, smax \in {PyFloat(params.sentiment_max)} })

\* str(n) of a natural number
RECURSIVE IntRepr(_)
IntRepr(n) ==
  IF n < 10 THEN <<Digits[n + 1]>>
  ELSE IntRepr(n \div 10) \o <<Digits[(n % 10) + 1]>>

\* str(f) of a float, as an f-string renders it.
FloatRepr(f) ==
  IF f.k = "nan" THEN <<"n", "a", "n">>
  ELSE IF f.k = "inf" THEN <<"i", "n", "f">>
  ELSE IF f.k = "ninf" THEN <<"-", "i", "n", "f">>
  ELSE
    Only({ (IF f.v < 0 THEN <<"-">> ELSE <<>>)
           \o IntRepr(a \div 100) \o <<".">>
           \o (IF a % 10 = 0 THEN <<Digits[((a % 100) \div 10) + 1]>>
               ELSE <<Digits[((a % 100) \div 10) + 1], Digits[(a % 10) + 1]>>)
         : a \in {IF f.v < 0 THEN 0 - f.v ELSE f.v} })

\* "topics/any(t: t eq '{topic}')" for every topic, joined by " or ".
TopicFilters(topics) ==
  [i \in 1..Len(topics) |-> <<"t", "o", "p", "i", "c", "s", "/", "a", "n", "y", "(", "t", ":", " ", "t", " ", "e", "q", " ", "'">> \o topics[i] \o <<"'", ")">>]

\* DataStorage.search_utterances, lines 87-104: filter_parts.
FilterParts(filters) ==
  (IF "from_date" \in filters.present
   THEN <<<<"m", "e", "e", "t", "i", "n", "g", "_", "d", "a", "t", "e", " ", "g", "e", " ">> \o filters.from_date>> ELSE <<>>)
  \o (IF "to_date" \in filters.present
      THEN <<<<"m", "e", "e", "t", "i", "n", "g", "_", "d", "a", "t", "e", " ", "l", "e", " ">> \o filters.to_date>> ELSE <<>>)
  \o (IF "speaker" \in filters.present
      THEN <<<<"s", "p", "e", "a", "k", "e", "r", " ", "e", "q", " ", "'">> \o filters.speaker \o <<"'">>>> ELSE <<>>)
  \o (IF "department" \in filters.present
      THEN <<<<"d", "e", "p", "a", "r", "t", "m", "e", "n", "t", " ", "e", "q", " ", "'">> \o filters.department \o <<"'">>>> ELSE <<>>)
  \o (IF "region" \in filters.present
      THEN <<<<"r", "e", "g", "i", "o", "n", " ", "e", "q", " ", "'">> \o filters.region \o <<"'">>>> ELSE <<>>)
  \o (IF "topics" \in filters.present
      THEN <<<<"(">> \o Join(TopicFilters(filters.topics), <<" ", "o", "r", " ">>) \o <<")">>>>
      ELSE <<>>)
  \o (IF "sentiment_min" \in filters.present
      THEN <<<<"s", "e", "n", "t", "i", "m", "e", "n", "t", "_", "s", "c", "o", "r", "e", " ", "g", "e", " ">> \o FloatRepr(filters.sentiment_min)>> ELSE <<>>)
  \o (IF "sentiment_max" \in filters.present
      THEN <<<<"s", "e", "n", "t", "i", "m", "e", "n", "t", "_", "s", "c", "o", "r", "e", " ", "l", "e", " ">> \o FloatRepr(filters.sentiment_max)>> ELSE <<>>)

\* DataStorage.search_utterances, lines 81-107: the keyword arguments of
\* search_client.search.  has_filter = FALSE is the absence of "filter".
SearchParams(search_text, filters, top, skip) ==
  Only({
  [top |-> top, skip |-> skip, include_total_count |-> TRUE,
   has_search_text |-> search_text # <<>>,
   search_text |-> search_text,
   has_filter |-> parts # <<>>,
   filter_parts |-> parts,
   filter |-> Join(parts, <<" ", "a", "n", "d", " ">>)]
  : parts \in {IF filters.present # {} THEN FilterParts(filters) ELSE <<>>} })

\* The distinct values of a sequence, each at its first occurrence: the key
\* order of a dict filled while the sequence is walked.
RECURSIVE FirstSeen(_)
FirstSeen(s) ==
  IF s = <<>> THEN <<>>
  ELSE Only({ IF s[Len(s)] \in Range(r) THEN r ELSE Append(r, s[Len(s)])
            : r \in {FirstSeen(SubSeq(s, 1, Len(s) - 1))} })

RECURSIVE SumOf(_)
SumOf(s) == IF s = <<>> THEN 0 ELSE Head(s) + SumOf(Tail(s))

\* The list as it stands, without the sort.
Unsorted(s, keys) == s

\* sorted(s, key=keys, reverse=True): equal keys keep their order.
StableDescending(s, keys) ==
  [p \in 1..Len(s) |->
     s[CHOOSE i \in 1..Len(s) :
         Cardinality({j \in 1..Len(s) :
                        keys[j] > keys[i] \/ (keys[j] = keys[i] /\ j < i)}) = p - 1]]

\* round(total / n, 2) in hundredths, total being a sum of hundredths.  The
\* float of a quotient that lies halfway between two hundredths falls on
\* either side: tie_up tells which.
RoundedAverage(total, n, tie_up) ==
  Only({ Only({ IF 2 * r < n THEN low
                ELSE IF 2 * r > n THEN low + 1
                ELSE IF tie_up THEN low + 1 ELSE low
              : r \in {total - n * low} })
       : low \in {total \div n} })

\* The count of the topic's first mention in each utterance only.
RECURSIVE TopicMentionsFirstOnly(_)
TopicMentionsFirstOnly(utterances) ==
  IF utterances = <<>> THEN <<>>
  ELSE (IF Head(utterances).topics = <<>> THEN <<>>
        ELSE <<[topic |-> Head(utterances).topics[1],
                sentiment |-> Head(utterances).sentiment_score]>>)
       \o TopicMentionsFirstOnly(Tail(utterances))

\* DataStorage.get_trends, lines 155-164: one entry per topic of every
\* utterance, in the order met.
RECURSIVE TopicMentions(_)
TopicMentions(utterances) ==
  IF utterances = <<>> THEN <<>>
  ELSE Only({ [i \in 1..Len(u.topics) |->
                 [topic |-> u.topics[i], sentiment |-> u.sentiment_score]]
            : u \in {Head(utterances)} })
       \o TopicMentions(Tail(utterances))

TrendLimit == 10

\* Lines 167-178.  The name is the topic with '_' replaced and title-cased,
\* kept here as the topic it is made from.
TrendOf(topic, mentions, tie_up) ==
  Only({ [name |-> topic,
          meetings_count |-> Len(own),
          avg_sentiment |-> RoundedAverage(SumOf(own), Len(own), tie_up),
          momentum |-> IF SumOf(own) > 10 * Len(own) THEN "up"
                       ELSE IF SumOf(own) < (0 - 10) * Len(own) THEN "down"
                       ELSE "flat",
          novelty_score |-> IF Len(own) * 10 < 100 THEN Len(own) * 10 ELSE 100]
       : own \in {[i \in 1..Len(SelectSeq(mentions, LAMBDA m : m.topic = topic)) |->
                     SelectSeq(mentions, LAMBDA m : m.topic = topic)[i].sentiment]} })

\* DataStorage.get_trends: utterances is what search_utterances returned.
get_trends(utterances, filters, tie_up) ==
  Only({ Only({ Only({ Only({
    [window_start |-> IF filters.present = {} THEN DefaultMeetingDate
                      ELSE IF "from_date" \in filters.present THEN filters.from_date
                      ELSE PyNone,
     window_end |-> IF filters.present = {} THEN <<"2", "0", "2", "5", "-", "1", "2", "-", "3", "1">>
                    ELSE IF "to_date" \in filters.present THEN filters.to_date
                    ELSE PyNone,
     trends |-> SubSeq(sorted, 1, MinOf({Len(sorted), TrendLimit}))]
    : sorted \in {StableDescending(trends,
                    [i \in 1..Len(trends) |-> trends[i].meetings_count])} })
    : trends \in {[i \in 1..Len(topics) |-> TrendOf(topics[i], mentions, tie_up)]} })
    : topics \in {FirstSeen([i \in 1..Len(mentions) |-> mentions[i].topic])} })
  : mentions \in {TopicMentions(utterances)} })

QuoteLimit == 200

MaxQuotes == 3

\* The quote without the cut at QuoteLimit.
ExemplarQuoteWhole(utterance) ==
  [quote |-> utterance.content,
   meeting_id |-> utterance.meeting_id,
   ts |-> utterance.start_timestamp]

\* insights_speakers main, lines 100-104.
ExemplarQuote(utterance) ==
  [quote |-> IF Len(utterance.content) > QuoteLimit
             THEN SubSeq(utterance.content, 1, QuoteLimit) \o <<".", ".", ".">>
             ELSE utterance.content,
   meeting_id |-> utterance.meeting_id,
   ts |-> utterance.start_timestamp]

\* Lines 82-104 and 108-121 for one speaker: own is the speaker's
\* utterances in the order retrieved.
SpeakerSummary(own, tie_up) ==
  [speaker_id |-> <<"s", "p", "k", "-">> \o SelectSeq(Lower(own[1].speaker), LAMBDA c : c # " "),
   display_name |-> own[1].speaker,
   department |-> own[1].department,
   region |-> own[1].region,
   country |-> "US",
   mentions |-> Len(own),
   avg_sentiment |->
     RoundedAverage(SumOf([i \in 1..Len(own) |-> own[i].sentiment_score]),
                    Len(own), tie_up),
   exemplar_quotes |->
     [i \in 1..MinOf({Len(own), MaxQuotes}) |-> ExemplarQuote(own[i])]]

\* Lines 67-124: the summaries in first-seen order, then sorted by mentions.
SpeakerResults(utterances, tie_up) ==
  Only({ Only({ StableDescending(results,
                  [i \in 1..Len(results) |-> results[i].mentions])
       : results \in {[k \in 1..Len(speakers) |->
                         SpeakerSummary(SelectSeq(utterances,
                                          LAMBDA u : u.speaker = speakers[k]),
                                        tie_up)]} })
  : speakers \in {FirstSeen([i \in 1..Len(utterances) |-> utterances[i].speaker])} })

\* insights_utterances main, lines 45-54: top and skip are converted in one
\* try, so a ValueError of either resets both.
Pagination(params) ==
  Only({ IF top.ok /\ skip.ok
         THEN [top |-> MinOf({top.v, 100}), skip |-> skip.v]
         ELSE [top |-> 50, skip |-> 0]
       : top \in {IF "top" \in params.present THEN PyInt(params.top)
                  ELSE [ok |-> TRUE, v |-> 50]},
         skip \in {IF "skip" \in params.present THEN PyInt(params.skip)
                   ELSE [ok |-> TRUE, v |-> 0]} })

\* insights_utterances main, lines 68-81.
ItemOf(utterance) ==
  [utterance_id |-> utterance.id,
   meeting_id |-> utterance.meeting_id,
   speaker |-> utterance.speaker,
   department |-> utterance.department,
   region |-> utterance.region,
   country |-> "US",
   start_ts |-> utterance.start_timestamp,
   end_ts |-> utterance.end_timestamp,
   sentiment_score |-> utterance.sentiment_score,
   content |-> utterance.content,
   topics |-> utterance.topics,
   link_to_clip |-> utterance.meeting_id]

(***************************************************************************)
(* Inputs of the read side: query strings, and the utterances the index    *)
(* returns (documents of distinct ids, in the order the index ranks them). *)
(***************************************************************************)
QueryString(from, to, topicsCsv, region, department, sentiment_min,
            sentiment_max, search, top, skip) ==
  [present |->
     {k \in {"from"} : from # PyNone} \cup {k \in {"to"} : to # PyNone}
     \cup {k \in {"topicsCsv"} : topicsCsv # PyNone}
     \cup {k \in {"region"} : region # PyNone}
     \cup {k \in {"department"} : department # PyNone}
     \cup {k \in {"sentiment_min"} : sentiment_min # PyNone}
     \cup {k \in {"sentiment_max"} : sentiment_max # PyNone}
     \cup {k \in {"search"} : search # PyNone}
     \cup {k \in {"top"} : top # PyNone} \cup {k \in {"skip"} : skip # PyNone},
   from |-> from, to |-> to, topicsCsv |-> topicsCsv, region |-> region,
   department |-> department, sentiment_min |-> sentiment_min,
   sentiment_max |-> sentiment_max, search |-> search, top |-> top, skip |-> skip]

\* Queries that differ in their filter fields.
FilterQueries ==
  {QueryString(from, to, topicsCsv, region, department, sentiment_min,
               sentiment_max, PyNone, PyNone, PyNone) :
     from \in {PyNone, <<>>, BareDate},
     to \in {PyNone, BareDate},
     topicsCsv \in {PyNone, <<>>, <<"p", "a", "c", "k", "a", "g", "i", "n", "g", ",", "o", "p", "e", "r", "a", "t", "i", "o", "n", "s">>},
     region \in {PyNone, <<"E", "M", "E", "A">>},
     department \in {PyNone, <<"R", "'", "D">>, <<"F", "i", "n", "a", "n", "c", "e">>},
     sentiment_min \in {PyNone, <<"n", "a", "n">>, <<"0", ".", "5">>, <<"a", "b", "c">>},
     sentiment_max \in {PyNone, <<"-", "0", ".", "2", "5">>}}

\* Queries that differ in the search text and the page.
PageQueries ==
  {QueryString(from, PyNone, PyNone, PyNone, PyNone, PyNone, PyNone,
               search, top, skip) :
     from \in {PyNone, BareDate},
     search \in {PyNone, <<>>, <<"s", "u", "g", "a", "r">>},
     top \in {PyNone, <<"5", "0", "0">>, <<"7">>, <<"x">>},
     skip \in {PyNone, <<"2">>, <<"-">>}}

InsightDocument(id, speaker, content, topics, sentiment_score) ==
  [SeedDocuments[1] EXCEPT !.id = id, !.speaker = speaker, !.content = content,
                           !.topics = topics, !.sentiment_score = sentiment_score]

RetrievedDocuments ==
  {InsightDocument(11, <<"A", "n", "n">>, <<"l", "e", "s", "s", " ", "s", "u", "g", "a", "r">>, <<"packaging", "operations">>, 10),
   InsightDocument(12, <<"A", "n", "n">>, [i \in 1..(QuoteLimit + 1) |-> "x"], <<"packaging">>, 11),
   InsightDocument(13, <<"a", "n", "n">>, [i \in 1..QuoteLimit |-> "y"], <<"general_discussion">>, 0 - 50),
   InsightDocument(14, <<"A", "n", "n">>, <<"h", "i">>, <<>>, 0),
   InsightDocument(15, <<"A", "n", "n">>, <<"n", "e", "w", " ", "c", "a", "n">>, <<"operations", "packaging">>, 10)}

MaxRetrieved == 4

RetrievedLists ==
  {s \in UNION {[1..n -> RetrievedDocuments] : n \in 0..MaxRetrieved} :
     \A i \in 1..Len(s), j \in 1..Len(s) : i < j => s[i].id # s[j].id}

PageRetrieved ==
  {s \in RetrievedLists : Len(s) <= 1 /\ \A i \in 1..Len(s) : s[i].id = 11}

(***************************************************************************)
(* The three read handlers, statement by statement: the filters, the       *)
(* search, the response body.                                              *)
(***************************************************************************)
InsightsLoc ==
  [filters |-> NoFilters, search_text |-> <<>>, top |-> 50, skip |-> 0,
   search_params |-> SearchParams(<<>>, NoFilters, 50, 0), utterances |-> <<>>]

InitInsights ==
  /\ corpus = {}
  /\ blobs = {}
  /\ uuids = 0
  /\ pc = "idle"
  /\ req = [handler |-> "none"]
  /\ loc = InsightsLoc
  /\ response = NoResponse
  /\ ghost = IdleGhost

\* insights_utterances lines 15-54, insights_trends lines 15-60,
\* insights_speakers lines 16-61.  Only insights_utterances reads search,
\* top and skip.
InsightsArrives ==
  /\ pc = "idle"
  /\ \E handler \in {"insights_utterances", "insights_trends", "insights_speakers"},
        authorized \in BOOLEAN :
     \E params \in IF handler = "insights_utterances"
                   THEN FilterQueries \cup PageQueries ELSE FilterQueries :
       /\ req' = [handler |-> handler, authorized |-> authorized, params |-> params]
       /\ IF handler # "insights_utterances" /\ ~authorized
          THEN /\ Respond(ErrorResponse(401, "Function key required"))
               /\ loc' = InsightsLoc
          ELSE /\ loc' =
                    IF handler = "insights_utterances"
                    THEN Only({ [InsightsLoc EXCEPT
                                   !.filters = HandlerFilters(params),
                                   !.search_text =
                                      IF "search" \in params.present
                                      THEN params.search ELSE <<>>,
                                   !.top = page.top,
                                   !.skip = page.skip]
                              : page \in {Pagination(params)} })
                    ELSE [InsightsLoc EXCEPT !.filters = HandlerFilters(params),
                                             !.top = 1000]
               /\ pc' = "i_storage"
               /\ UNCHANGED response
  /\ UNCHANGED <<corpus, blobs, uuids, ghost>>

\* DataStorage() and search_utterances (directly, or inside get_trends): a
\* raising query yields [].  Queries that carry more than a date are served
\* from PageRetrieved.
InsightsSearch ==
  /\ pc = "i_storage"
  /\ \E constructed \in BOOLEAN :
       IF ~constructed
       THEN /\ Respond(InternalError)
            /\ ghost' = [ghost EXCEPT !.faults = @ \cup {"storage_init"}]
            /\ UNCHANGED loc
       ELSE \E answered \in BOOLEAN :
            \E retrieved \in IF /\ req.params.present \subseteq {"from"}
                                /\ req.params.from # <<>>
                             THEN RetrievedLists ELSE PageRetrieved :
              /\ loc' = [loc EXCEPT
                           !.search_params =
                              SearchParams(loc.search_text, loc.filters, loc.top, loc.skip),
                           !.utterances = IF answered THEN retrieved ELSE <<>>]
              /\ ghost' = IF answered THEN ghost
                          ELSE [ghost EXCEPT !.faults = @ \cup {"index_read"}]
              /\ pc' = "i_respond"
              /\ UNCHANGED response
  /\ UNCHANGED <<corpus, blobs, uuids, req>>

\* insights_utterances lines 65-100, insights_trends lines 64-70 with the
\* rest of get_trends, insights_speakers lines 67-134.
InsightsRespond ==
  /\ pc = "i_respond"
  /\ \E tie_up \in BOOLEAN :
       Respond(
         IF req.handler = "insights_utterances"
         THEN [status |-> 200, kind |-> req.handler,
               items |-> [i \in 1..Len(loc.utterances) |-> ItemOf(loc.utterances[i])],
               total_count |-> Len(loc.utterances),
               search_text |-> loc.search_text,
               filters_applied |-> loc.filters,
               pagination |-> [top |-> loc.top, skip |-> loc.skip,
                               has_more |-> Len(loc.utterances) = loc.top]]
         ELSE IF req.handler = "insights_trends"
         THEN [status |-> 200, kind |-> req.handler,
               body |-> get_trends(loc.utterances, loc.filters, tie_up)]
         ELSE [status |-> 200, kind |-> req.handler,
               results |-> SpeakerResults(loc.utterances, tie_up)])
  /\ UNCHANGED <<corpus, blobs, uuids, req, loc, ghost>>

NextInsights ==
  \/ InsightsArrives
  \/ InsightsSearch
  \/ InsightsRespond

SpecInsights == InitInsights /\ [][NextInsights]_vars

(***************************************************************************)
(* chat: src/chat/__init__.py.  The answers of the language model are      *)
(* responses as above; a raising call carries the text of its exception.   *)
(***************************************************************************)
JBool(b) == [t |-> "bool", b |-> b]

RaiseWith(message) == [kind |-> "raise", message |-> message]

\* The parameters of {} and the parameters_used of every result.
NoParameters == [k \in {} |-> JNull]

\* str(j); quoted is the repr of a string inside the str of a list.  The
\* dicts that reach str() here are empty.
RECURSIVE PyStr(_, _)
PyStr(j, quoted) ==
  CASE j.t = "string" -> IF quoted THEN <<"'">> \o j.s \o <<"'">> ELSE j.s
    [] j.t = "number" -> IF j.n < 0 THEN <<"-">> \o IntRepr(0 - j.n) ELSE IntRepr(j.n)
    [] j.t = "bool" -> IF j.b THEN <<"T", "r", "u", "e">> ELSE <<"F", "a", "l", "s", "e">>
    [] j.t = "null" -> <<"N", "o", "n", "e">>
    [] j.t = "array" ->
         <<"[">> \o Join([i \in 1..Len(j.items) |-> PyStr(j.items[i], TRUE)],
                         <<",", " ">>) \o <<"]">>
    [] OTHER -> <<"{", "}">>

Dropped == [kept |-> FALSE, value |-> JNull]

\* The entry kept although its value is a list under another key.
ValidatedValueKeepingLists(key, value) ==
  CASE value.t = "null" -> Dropped
    [] value.t = "string" ->
         IF Strip(value.s) # <<>> /\ value.s # <<"n", "u", "l", "l">>
         THEN [kept |-> TRUE, value |-> JStr(Strip(value.s))] ELSE Dropped
    [] OTHER -> [kept |-> TRUE, value |-> JStr(PyStr(value, FALSE))]

\* ChatQueryProcessor.validate_parameters, lines 85-100: what one entry of
\* parameters leaves in validated.
ValidatedValue(key, value) ==
  IF value.t = "null" \/ value = JStr(<<"n", "u", "l", "l">>) \/ value = JStr(<<>>)
  THEN Dropped
  ELSE IF value.t = "array"
  THEN (IF key = "topics" /\ value.items # <<>>
        THEN Only({ [kept |-> TRUE,
                     value |-> JArr([i \in 1..Len(items) |->
                                       JStr(PyStr(items[i], FALSE))])]
                  : items \in {SelectSeq(value.items,
                                 LAMBDA item : JTruthy(item)
                                               /\ Strip(PyStr(item, FALSE)) # <<>>)} })
        ELSE Dropped)
  ELSE IF value.t = "string"
  THEN (IF Strip(value.s) # <<>>
        THEN [kept |-> TRUE, value |-> JStr(Strip(value.s))] ELSE Dropped)
  ELSE [kept |-> TRUE, value |-> JStr(PyStr(value, FALSE))]

\* Lines 74-102.  The keys of a parsed JSON object are strings; a value
\* that is no dict has no .items and raises.
validate_parameters(parameters) ==
  IF parameters.t # "object" THEN [raised |-> TRUE, validated |-> NoParameters]
  ELSE [raised |-> FALSE,
        validated |->
          [key \in {k \in DOMAIN parameters.fields :
                      ValidatedValue(k, parameters.fields[k]).kept} |->
             ValidatedValue(key, parameters.fields[key]).value]]

IntentUtterances == <<"u", "t", "t", "e", "r", "a", "n", "c", "e", "s">>

\* Lines 68-72: the result of the except.
DefaultAnalysis ==
  JObj([x \in {"intent", "parameters", "entities"} |->
          IF x = "intent" THEN JStr(IntentUtterances)
          ELSE IF x = "parameters" THEN JObj(NoParameters) ELSE JArr(<<>>)])

\* ChatQueryProcessor.extract_intent_and_parameters, lines 28-72: whatever
\* json.loads returns is returned as it is.
extract_intent_and_parameters(resp) ==
  IF resp.kind = "text" /\ resp.json.ok THEN resp.json.value ELSE DefaultAnalysis

DeploymentName == <<"g", "p", "t", "-", "4", "o">>

NoStripMessage == <<"'", "N", "o", "n", "e", "T", "y", "p", "e", "'", " ", "o", "b", "j", "e", "c", "t", " ", "h", "a", "s", " ", "n", "o", " ", "a", "t", "t", "r", "i", "b", "u", "t", "e", " ", "'", "s", "t", "r", "i", "p", "'">>

\* ChatQueryProcessor.generate_answer, lines 246-271: the answer of the
\* model stripped, or one of the four texts of the except.
generate_answer(resp) ==
  IF resp.kind = "text" THEN Strip(resp.text)
  ELSE
    Only({ Only({
      IF Contains(error_msg, <<"a", "u", "t", "h", "e", "n", "t", "i", "c", "a", "t", "i", "o", "n">>) \/ Contains(error_msg, <<"u", "n", "a", "u", "t", "h", "o", "r", "i", "z", "e", "d">>)
      THEN <<"I", "'", "m", " ", "e", "x", "p", "e", "r", "i", "e", "n", "c", "i", "n", "g", " ", "a", "u", "t", "h", "e", "n", "t", "i", "c", "a", "t", "i", "o", "n", " ", "i", "s", "s", "u", "e", "s", " ", "w", "i", "t", "h", " ", "t", "h", "e", " ", "A", "I", " ", "s", "e", "r", "v", "i", "c", "e", ".", " ", "P", "l", "e", "a", "s", "e", " ", "c", "o", "n", "t", "a", "c", "t", " ", "s", "u", "p", "p", "o", "r", "t", ".">>
      ELSE IF Contains(error_msg, <<"n", "o", "t", " ", "f", "o", "u", "n", "d">>) \/ Contains(error_msg, <<"4", "0", "4">>)
      THEN <<"T", "h", "e", " ", "A", "I", " ", "m", "o", "d", "e", "l", " ", "'">> \o DeploymentName \o <<"'", " ", "i", "s", " ", "n", "o", "t", " ", "a", "v", "a", "i", "l", "a", "b", "l", "e", ".", " ", "P", "l", "e", "a", "s", "e", " ", "c", "h", "e", "c", "k", " ", "t", "h", "e", " ", "c", "o", "n", "f", "i", "g", "u", "r", "a", "t", "i", "o", "n", ".">>
      ELSE IF Contains(error_msg, <<"q", "u", "o", "t", "a">>) \/ Contains(error_msg, <<"r", "a", "t", "e", " ", "l", "i", "m", "i", "t">>)
      THEN <<"T", "h", "e", " ", "A", "I", " ", "s", "e", "r", "v", "i", "c", "e", " ", "i", "s", " ", "c", "u", "r", "r", "e", "n", "t", "l", "y", " ", "a", "t", " ", "c", "a", "p", "a", "c", "i", "t", "y", ".", " ", "P", "l", "e", "a", "s", "e", " ", "t", "r", "y", " ", "a", "g", "a", "i", "n", " ", "i", "n", " ", "a", " ", "m", "o", "m", "e", "n", "t", ".">>
      ELSE <<"I", " ", "e", "n", "c", "o", "u", "n", "t", "e", "r", "e", "d", " ", "a", "n", " ", "e", "r", "r", "o", "r", ":", " ">> \o e \o <<".", " ", "P", "l", "e", "a", "s", "e", " ", "t", "r", "y", " ", "a", "s", "k", "i", "n", "g", " ", "y", "o", "u", "r", " ", "q", "u", "e", "s", "t", "i", "o", "n", " ", "i", "n", " ", "a", " ", "d", "i", "f", "f", "e", "r", "e", "n", "t", " ", "w", "a", "y", ".">>
      : error_msg \in {Lower(e)} })
    : e \in {IF resp.kind = "raise" THEN resp.message ELSE NoStripMessage} })

Apology == <<"I", " ", "a", "p", "o", "l", "o", "g", "i", "z", "e", ",", " ", "b", "u", "t", " ", "I", " ", "e", "n", "c", "o", "u", "n", "t", "e", "r", "e", "d", " ", "a", "n", " ", "e", "r", "r", "o", "r", " ", "p", "r", "o", "c", "e", "s", "s", "i", "n", "g", " ", "y", "o", "u", "r", " ", "q", "u", "e", "s", "t", "i", "o", "n", ".", " ", "P", "l", "e", "a", "s", "e", " ", "t", "r", "y", " ", "r", "e", "p", "h", "r", "a", "s", "i", "n", "g", " ", "y", "o", "u", "r", " ", "q", "u", "e", "r", "y", ".">>

\* process_query, lines 188-209: the result of the except.  None of the
\* exceptions met here says "key must be a string".
ErrorResult(e) ==
  [status |-> 200, kind |-> "chat_error", answer |-> Apology,
   data |-> NoParameters, sources |-> <<>>, confidence |-> 0, error |-> e]

\* Lines 132-138: speaker_counts, in the order the speakers are met.
SpeakerCounts(utterances) ==
  Only({ [k \in 1..Len(speakers) |->
            Only({ [speaker |-> speakers[k], count |-> Len(own),
                    sentiment |-> [i \in 1..Len(own) |-> own[i].sentiment_score]]
                 : own \in {SelectSeq(utterances,
                              LAMBDA u : u.speaker = speakers[k])} })]
       : speakers \in {FirstSeen([i \in 1..Len(utterances) |-> utterances[i].speaker])} })

IntentOf(name) ==
  CASE name = "trends" -> <<"t", "r", "e", "n", "d", "s">>
    [] name = "speakers" -> <<"s", "p", "e", "a", "k", "e", "r", "s">>
    [] name = "sentiment" -> <<"s", "e", "n", "t", "i", "m", "e", "n", "t">>
    [] name = "topics" -> <<"t", "o", "p", "i", "c", "s">>
    [] OTHER -> IntentUtterances

\* Lines 119-161: data and sources for the intent.  utterances is what the
\* index returned to the one search of the branch.  average_sentiment is
\* the quotient sum / count, kept as its two terms.
DataFor(intent, utterances, tie_up) ==
  IF intent = JStr(IntentOf("trends"))
  THEN Only({ [data |-> [kind |-> "trends", trends_data |-> trends_data],
               sources |-> <<<<"T", "r", "e", "n", "d", " ", "a", "n", "a", "l", "y", "s", "i", "s", " ", "f", "o", "r", " ">> \o IntRepr(Len(trends_data.trends)) \o <<" ", "t", "o", "p", "i", "c", "s">>>>]
            : trends_data \in {get_trends(utterances, NoFilters, tie_up)} })
  ELSE IF intent = JStr(IntentOf("speakers"))
  THEN Only({ [data |-> [kind |-> "speakers", speakers |-> speaker_counts],
               sources |-> <<<<"A", "n", "a", "l", "y", "s", "i", "s", " ", "o", "f", " ">> \o IntRepr(Len(utterances)) \o <<" ", "u", "t", "t", "e", "r", "a", "n", "c", "e", "s", " ", "f", "r", "o", "m", " ">> \o IntRepr(Len(speaker_counts)) \o <<" ", "s", "p", "e", "a", "k", "e", "r", "s">>>>]
            : speaker_counts \in {SpeakerCounts(utterances)} })
  ELSE IF intent = JStr(IntentUtterances)
  THEN [data |-> [kind |-> "utterances", utterances |-> utterances],
        sources |-> <<<<"F", "o", "u", "n", "d", " ">> \o IntRepr(Len(utterances)) \o <<" ", "r", "e", "l", "e", "v", "a", "n", "t", " ", "u", "t", "t", "e", "r", "a", "n", "c", "e", "s">>>>]
  ELSE IF intent = JStr(IntentOf("sentiment"))
  THEN [data |-> [kind |-> "sentiment",
                  average_sentiment |->
                    IF utterances # <<>>
                    THEN [sum |-> SumOf([i \in 1..Len(utterances) |->
                                           utterances[i].sentiment_score]),
                          count |-> Len(utterances)]
                    ELSE [sum |-> 0, count |-> 1],
                  total_utterances |-> Len(utterances)],
        sources |-> <<<<"S", "e", "n", "t", "i", "m", "e", "n", "t", " ", "a", "n", "a", "l", "y", "s", "i", "s", " ", "o", "f", " ">> \o IntRepr(Len(utterances)) \o <<" ", "u", "t", "t", "e", "r", "a", "n", "c", "e", "s">>>>]
  ELSE [data |-> [kind |-> "utterances", utterances |-> utterances],
        sources |-> <<<<"G", "e", "n", "e", "r", "a", "l", " ", "s", "e", "a", "r", "c", "h", " ", "r", "e", "t", "u", "r", "n", "e", "d", " ">> \o IntRepr(Len(utterances)) \o <<" ", "r", "e", "s", "u", "l", "t", "s">>>>]

\* Lines 164-170.  The dict of the speakers and sentiment branches always
\* has a key, so it is truthy.
HasData(intent, data) ==
  IF intent = JStr(IntentOf("trends")) THEN data.trends_data.trends # <<>>
  ELSE IF intent \in {JStr(IntentOf("speakers")), JStr(IntentOf("sentiment"))} THEN TRUE
  ELSE IF intent = JStr(IntentUtterances) THEN data.utterances # <<>>
  ELSE FALSE

HighConfidence == 85

LowConfidence == 30

(***************************************************************************)
(* Inputs of the chat endpoint: request bodies, the answers of the model   *)
(* to the intent prompt and to the answer prompt, and the utterances the   *)
(* index returns.                                                          *)
(***************************************************************************)
ChatQuestion == <<"W", "h", "a", "t", " ", "s", "e", "l", "l", "s", "?">>

\* No JSON, a JSON value without .get, an object without a question, an
\* object with one.
ChatBodies ==
  {[json |-> FALSE, object |-> FALSE, question |-> <<>>],
   [json |-> TRUE, object |-> FALSE, question |-> <<>>],
   [json |-> TRUE, object |-> TRUE, question |-> <<>>],
   [json |-> TRUE, object |-> TRUE, question |-> ChatQuestion]}

Analysis(intent, parameters) ==
  JObj([x \in {"intent", "parameters", "entities"} |->
          IF x = "intent" THEN intent
          ELSE IF x = "parameters" THEN parameters ELSE JArr(<<>>)])

ParametersMixed ==
  JObj([x \in {"from_date", "to_date", "department", "region", "topics",
               "sentiment_filter", "entities", "urgent", "window"} |->
          CASE x = "from_date" -> JNull
            [] x = "to_date" -> JStr(<<"n", "u", "l", "l">>)
            [] x = "department" -> JStr(<<" ", "F", "i", "n", "a", "n", "c", "e", " ">>)
            [] x = "region" -> JStr(<<" ">>)
            [] x = "topics" -> JArr(<<JStr(<<"p", "a", "c", "k", "a", "g", "i", "n", "g">>), JStr(<<>>), JStr(<<" ">>),
                                      JNum(0), JNum(7), JArr(<<JStr(<<"a">>)>>)>>)
            [] x = "sentiment_filter" -> JNum(0 - 5)
            [] x = "entities" -> JArr(<<JStr(<<"A", "n", "n">>)>>)
            [] x = "urgent" -> JBool(TRUE)
            [] OTHER -> JObj(NoParameters)])

ParametersBlank ==
  JObj([x \in {"topics", "region", "speakers"} |->
          CASE x = "topics" -> JArr(<<JStr(<<" ">>)>>)
            [] x = "region" -> JStr(<<>>)
            [] OTHER -> JArr(<<>>)])

ParametersNoTopics == JObj([x \in {"topics"} |-> JArr(<<>>)])

ParameterObjects ==
  {JObj(NoParameters), ParametersMixed, ParametersBlank, ParametersNoTopics}

ConnectionError == <<"C", "o", "n", "n", "e", "c", "t", "i", "o", "n", " ", "e", "r", "r", "o", "r", ".">>

IntentResponses ==
  {RaiseWith(ConnectionError), NoContentResponse, NotJsonResponse,
   JsonResponse(JNull), JsonResponse(JArr(<<>>)),
   JsonResponse(JObj([x \in {"intent"} |-> JStr(IntentOf("trends"))])),
   JsonResponse(JObj([x \in {"parameters"} |-> JObj(NoParameters)])),
   JsonResponse(Analysis(JStr(IntentOf("trends")), JNull)),
   JsonResponse(Analysis(JStr(IntentOf("trends")), JArr(<<>>))),
   JsonResponse(Analysis(JNull, JObj(NoParameters))),
   JsonResponse(Analysis(JStr(<<"s", "u", "m", "m", "a", "r", "y">>), JObj(NoParameters)))}
  \cup {JsonResponse(Analysis(JStr(IntentOf(name)), parameters)) :
          name \in {"trends", "speakers", "utterances", "sentiment", "topics"},
          parameters \in ParameterObjects}

AnswerResponses ==
  {RaiseWith(ConnectionError), RaiseWith(<<"E", "r", "r", "o", "r", " ", "c", "o", "d", "e", ":", " ", "4", "0", "1", " ", "-", " ", "U", "n", "a", "u", "t", "h", "o", "r", "i", "z", "e", "d">>),
   RaiseWith(<<"E", "r", "r", "o", "r", " ", "c", "o", "d", "e", ":", " ", "4", "0", "4">>), RaiseWith(<<"R", "a", "t", "e", " ", "l", "i", "m", "i", "t", " ", "r", "e", "a", "c", "h", "e", "d">>),
   NoContentResponse, TextResponse(<<" ", "P", "a", "c", "k", "a", "g", "i", "n", "g", " ", "l", "e", "a", "d", "s", ".", " ">>)}

MaxChatRetrieved == 2

ChatRetrieved == {s \in RetrievedLists : Len(s) <= MaxChatRetrieved}

(***************************************************************************)
(* The chat endpoint, from the request to the response.                    *)
(***************************************************************************)
NotAsked == [kind |-> "unasked"]

ChatLoc ==
  [question |-> <<>>, context |-> <<>>, analysis |-> JNull, intent |-> JNull,
   parameters |-> NoParameters, top |-> 0, utterances |-> <<>>,
   data |-> NoParameters, sources |-> <<>>, has_data |-> FALSE]

\* The answers of the two prompts (history only).
ChatGhost == [intent_response |-> NotAsked, answer_response |-> NotAsked]

InitChat ==
  /\ corpus = {}
  /\ blobs = {}
  /\ uuids = 0
  /\ pc = "idle"
  /\ req = [handler |-> "none"]
  /\ loc = ChatLoc
  /\ response = NoResponse
  /\ ghost = ChatGhost

\* main, lines 330-340: the 500 of the outer except.
ChatInternalError ==
  [status |-> 500, kind |-> "error", error |-> "Internal server error",
   answer |-> <<"I", "'", "m", " ", "s", "o", "r", "r", "y", ",", " ", "I", " ", "e", "n", "c", "o", "u", "n", "t", "e", "r", "e", "d", " ", "a", "n", " ", "e", "r", "r", "o", "r", " ", "p", "r", "o", "c", "e", "s", "s", "i", "n", "g", " ", "y", "o", "u", "r", " ", "r", "e", "q", "u", "e", "s", "t", ".", " ", "P", "l", "e", "a", "s", "e", " ", "t", "r", "y", " ", "a", "g", "a", "i", "n", ".">>]

\* main, lines 278-321: the key of a caller that is not local, the body,
\* the question, and ChatQueryProcessor(), whose clients may raise.
ChatArrives ==
  /\ pc = "idle"
  /\ \E local \in BOOLEAN, function_key \in BOOLEAN, constructed \in BOOLEAN,
        body \in ChatBodies :
       /\ req' = [handler |-> "chat", local |-> local,
                  function_key |-> function_key, body |-> body]
       /\ IF ~local /\ ~function_key
          THEN /\ Respond(ErrorResponse(401, "Function key required for non-localhost requests"))
               /\ UNCHANGED loc
          ELSE IF ~body.json
          THEN Respond(ErrorResponse(400, "Invalid JSON in request body")) /\ UNCHANGED loc
          ELSE IF ~body.object
          THEN Respond(ChatInternalError) /\ UNCHANGED loc
          ELSE IF body.question = <<>>
          THEN Respond(ErrorResponse(400, "Question is required")) /\ UNCHANGED loc
          ELSE IF ~constructed
          THEN Respond(ChatInternalError) /\ UNCHANGED loc
          ELSE /\ loc' = [ChatLoc EXCEPT !.question = body.question]
               /\ pc' = "c_intent"
               /\ UNCHANGED response
  /\ UNCHANGED <<corpus, blobs, uuids, ghost>>

\* type(j).__name__
TypeName(j) ==
  CASE j.t = "null" -> <<"N", "o", "n", "e", "T", "y", "p", "e">>
    [] j.t = "array" -> <<"l", "i", "s", "t">>
    [] j.t = "string" -> <<"s", "t", "r">>
    [] j.t = "number" -> <<"i", "n", "t">>
    [] j.t = "bool" -> <<"b", "o", "o", "l">>
    [] OTHER -> <<"d", "i", "c", "t">>

\* str(e) of the TypeError of j["intent"] on a value that is no dict.
SubscriptError(j) ==
  CASE j.t = "array" -> <<"l", "i", "s", "t", " ", "i", "n", "d", "i", "c", "e", "s", " ", "m", "u", "s", "t", " ", "b", "e", " ", "i", "n", "t", "e", "g", "e", "r", "s", " ", "o", "r", " ", "s", "l", "i", "c", "e", "s", ",", " ", "n", "o", "t", " ", "s", "t", "r">>
    [] j.t = "string" -> <<"s", "t", "r", "i", "n", "g", " ", "i", "n", "d", "i", "c", "e", "s", " ", "m", "u", "s", "t", " ", "b", "e", " ", "i", "n", "t", "e", "g", "e", "r", "s">>
    [] OTHER -> <<"'">> \o TypeName(j) \o <<"'", " ", "o", "b", "j", "e", "c", "t", " ", "i", "s", " ", "n", "o", "t", " ", "s", "u", "b", "s", "c", "r", "i", "p", "t", "a", "b", "l", "e">>

\* process_query, lines 113-116: the intent prompt is answered, and
\* analysis["intent"], analysis["parameters"] and validate_parameters raise
\* into the except of line 188.
ChatIntent ==
  /\ pc = "c_intent"
  /\ \E resp \in IntentResponses :
     \E analysis \in {extract_intent_and_parameters(resp)} :
       /\ ghost' = [ghost EXCEPT !.intent_response = resp]
       /\ IF analysis.t # "object"
          THEN Respond(ErrorResult(SubscriptError(analysis))) /\ UNCHANGED loc
          ELSE IF "intent" \notin DOMAIN analysis.fields
          THEN Respond(ErrorResult(<<"'", "i", "n", "t", "e", "n", "t", "'">>)) /\ UNCHANGED loc
          ELSE IF "parameters" \notin DOMAIN analysis.fields
          THEN Respond(ErrorResult(<<"'", "p", "a", "r", "a", "m", "e", "t", "e", "r", "s", "'">>)) /\ UNCHANGED loc
          ELSE \E checked \in {validate_parameters(analysis.fields["parameters"])} :
                 IF checked.raised
                 THEN /\ Respond(ErrorResult(
                           <<"'">> \o TypeName(analysis.fields["parameters"])
                           \o <<"'", " ", "o", "b", "j", "e", "c", "t", " ", "h", "a", "s", " ", "n", "o", " ", "a", "t", "t", "r", "i", "b", "u", "t", "e", " ", "'", "i", "t", "e", "m", "s", "'">>))
                      /\ UNCHANGED loc
                 ELSE /\ loc' = [loc EXCEPT !.analysis = analysis,
                                            !.intent = analysis.fields["intent"],
                                            !.parameters = checked.validated]
                      /\ pc' = "c_data"
                      /\ UNCHANGED response
  /\ UNCHANGED <<corpus, blobs, uuids, req>>

\* Lines 119-172: the one search of the branch (a raising query yields []),
\* the data, the sources and has_data.
ChatData ==
  /\ pc = "c_data"
  /\ \E answered \in BOOLEAN, retrieved \in ChatRetrieved, tie_up \in BOOLEAN :
     \E utterances \in {IF answered THEN retrieved ELSE <<>>} :
     \E found \in {DataFor(loc.intent, utterances, tie_up)} :
       loc' = [loc EXCEPT
                 !.top = IF loc.intent \in {JStr(IntentOf("trends")),
                                            JStr(IntentOf("speakers")),
                                            JStr(IntentOf("sentiment"))}
                         THEN 1000 ELSE 50,
                 !.utterances = utterances,
                 !.data = found.data,
                 !.sources = found.sources,
                 !.has_data = HasData(loc.intent, found.data)]
  /\ pc' = "c_answer"
  /\ UNCHANGED <<corpus, blobs, uuids, req, response, ghost>>

\* Lines 174-186 and main, lines 324-328: the answer prompt is answered and
\* the result is returned with status 200.
ChatAnswer ==
  /\ pc = "c_answer"
  /\ \E resp \in AnswerResponses :
       /\ ghost' = [ghost EXCEPT !.answer_response = resp]
       /\ Respond([status |-> 200, kind |-> "chat",
                   answer |-> generate_answer(resp),
                   data |-> loc.data,
                   sources |-> loc.sources,
                   confidence |-> IF loc.has_data THEN HighConfidence ELSE LowConfidence,
                   intent |-> loc.intent,
                   parameters_used |-> NoParameters])
  /\ UNCHANGED <<corpus, blobs, uuids, req, loc>>

NextChat ==
  \/ ChatArrives
  \/ ChatIntent
  \/ ChatData
  \/ ChatAnswer

SpecChat == InitChat /\ [][NextChat]_vars

(***************************************************************************)
(* The speaker of a cue: parse_vtt is called on transcripts of one cue,    *)
(* with the header the library asks for (the primary parser reads the cue) *)
(* and without it (the fallback does).                                     *)
(***************************************************************************)
CuePrefixes ==
  {<<>>, <<"A", "n", "n">>, <<" ", "A", "n", "n", " ">>} \cup {[i \in 1..n |-> "x"] : n \in (SpeakerLimit - 1)..(SpeakerLimit + 1)}

CueTails == {<<>>, <<":">>, <<":", " ">>, <<":", " ", "h", "i">>, <<":", " ", "a", "t", " ", "1", "0", ":", "3", "0">>, <<":", "a", ":", "b">>}

CueTexts == {prefix \o tail : prefix \in CuePrefixes, tail \in CueTails}

CueLoc == [utterances |-> <<>>, raised |-> FALSE]

InitCue ==
  /\ corpus = {}
  /\ blobs = {}
  /\ uuids = 0
  /\ pc = "idle"
  /\ req = [handler |-> "none"]
  /\ loc = CueLoc
  /\ response = NoResponse
  /\ ghost = IdleGhost

CueCalled ==
  /\ pc = "idle"
  /\ \E text \in CueTexts, header \in BOOLEAN :
       req' = [handler |-> "parse_vtt", cue |-> text,
               text |-> IF header THEN <<LineHeader, LineBlank, LineTimeLong, text>>
                        ELSE <<LineTimeLong, text>>]
  /\ pc' = "q_call"
  /\ UNCHANGED <<corpus, blobs, uuids, loc, response, ghost>>

CueParsed ==
  /\ pc = "q_call"
  /\ loc' = [utterances |-> parse_vtt(req.text, uuids),
             raised |-> WebVttFromString(req.text).raised]
  /\ pc' = "q_return"
  /\ UNCHANGED <<corpus, blobs, uuids, req, response, ghost>>

NextCue ==
  \/ CueCalled
  \/ CueParsed

SpecCue == InitCue /\ [][NextCue]_vars

(***************************************************************************)
(* get_trends on its own, on utterances that carry more topics than the    *)
(* list may hold.                                                          *)
(***************************************************************************)
ManyTopics ==
  <<"t01", "t02", "t03", "t04", "t05", "t06", "t07", "t08", "t09", "t10", "t11">>

TrendDocuments ==
  {InsightDocument(21, <<"A", "n", "n">>, <<"a", "l", "l", " ", "o", "f", " ", "i", "t">>, ManyTopics, 10),
   InsightDocument(22, <<"B", "o", "b">>, <<"t", "h", "e", " ", "l", "a", "s", "t">>, <<"t11">>, 20),
   InsightDocument(23, <<"B", "o", "b">>, <<"t", "w", "o", " ", "m", "o", "r", "e">>, <<"t05", "t12">>, 0 - 30),
   InsightDocument(24, <<"A", "n", "n">>, <<"h", "i">>, <<>>, 0)}

MaxTrendUtterances == 3

TrendLists ==
  {s \in UNION {[1..n -> TrendDocuments] : n \in 0..MaxTrendUtterances} :
     \A i \in 1..Len(s), j \in 1..Len(s) : i < j => s[i].id # s[j].id}

TrendsLoc == [utterances |-> <<>>, body |-> get_trends(<<>>, NoFilters, FALSE)]

InitTrends ==
  /\ corpus = {}
  /\ blobs = {}
  /\ uuids = 0
  /\ pc = "idle"
  /\ req = [handler |-> "none"]
  /\ loc = TrendsLoc
  /\ response = NoResponse
  /\ ghost = IdleGhost

\* Line 151: what search_utterances returns to get_trends.
TrendsSearched ==
  /\ pc = "idle"
  /\ \E utterances \in TrendLists, tie_up \in BOOLEAN :
       /\ req' = [handler |-> "get_trends", tie_up |-> tie_up]
       /\ loc' = [TrendsLoc EXCEPT !.utterances = utterances]
  /\ pc' = "r_call"
  /\ UNCHANGED <<corpus, blobs, uuids, response, ghost>>

\* Lines 152-184.
TrendsReturned ==
  /\ pc = "r_call"
  /\ loc' = [loc EXCEPT !.body = get_trends(loc.utterances, NoFilters, req.tie_up)]
  /\ pc' = "r_return"
  /\ UNCHANGED <<corpus, blobs, uuids, req, response, ghost>>

NextTrends ==
  \/ TrendsSearched
  \/ TrendsReturned

SpecTrends == InitTrends /\ [][NextTrends]_vars

(***************************************************************************)
(* Properties.                                                             *)
(***************************************************************************)
InUnit(f) == f.k = "num" /\ f.v \in -100..100

\* C1: whatever the collaborator answers to the sentiment prompt (a number
\* inside or outside [-1,1], nan, a phrase, empty or garbage text, no
\* content, an error), analyze_sentiment returns a score in [-1,1], and so
\* does every utterance enrich_utterances has enriched.  (SpecEnrich)
SentimentInRange ==
  /\ InUnit(loc.sentiment_score)
  /\ \A i \in 1..Len(loc.enriched_utterances) :
       loc.enriched_utterances[i].sentiment_score \in -100..100

\* An answer above the range has been clamped to 1.0 in a returned batch.
SentimentClamped ==
  /\ pc = "e_returned"
  /\ loc.sresp = TextResponse(TextAbove)
  /\ loc.sentiment_score = Num(100)
  /\ loc.enriched_utterances[Len(loc.enriched_utterances)].sentiment_score = 100

\* C2: enrich_utterances never raises and returns one enriched utterance
\* per input utterance, whatever the collaborator answers, entity values
\* that are no lists of strings included.  (SpecEnrich)
EnrichNeverRaises ==
  /\ pc # "e_raised"
  /\ pc = "e_returned" => Len(loc.enriched_utterances) = Len(req.utterances)

\* C3: in an upload that stored its batch, when the enrichment of one
\* utterance failed, every other utterance is persisted with the sentiment,
\* department and region its own responses derive.
SiblingsKeepOwnValues ==
  (/\ pc = "done"
   /\ req.handler = "upload"
   /\ response.status = 200
   /\ ghost.faults = {}
   /\ \E k \in 1..Len(ghost.own) : ghost.own[k].failed)
  => \A i \in 1..Len(ghost.own) :
       ~ghost.own[i].failed =>
         \E d \in corpus :
           /\ d.id = loc.normalized_utterances[i].id
           /\ d.sentiment_score = ghost.own[i].sentiment_score
           /\ d.department = ghost.own[i].department
           /\ d.region = ghost.own[i].region

\* C4: when every call of the enrichment collaborator raised during an
\* upload and storage met no failure, every utterance of the batch is
\* persisted with sentiment 0.0, department Unknown and the topic
\* general_discussion.
AllCallsRaisedStillPersisted ==
  (/\ pc = "done"
   /\ req.handler = "upload"
   /\ ghost.raised /\ ~ghost.answered
   /\ ghost.faults = {})
  => \A i \in 1..Len(loc.normalized_utterances) :
       \E d \in corpus :
         /\ d.id = loc.normalized_utterances[i].id
         /\ d.sentiment_score = 0
         /\ d.department = "Unknown"
         /\ d.topics = GeneralDiscussion

\* C5: when the orchestrator cannot be constructed or the enrichment step
\* raises, and storage meets no failure, the upload of a caption file
\* succeeds and persists the normalizer-default utterances carrying the
\* topic general_discussion.
OrchestratorUnavailableFallsBack ==
  (/\ pc = "done"
   /\ req.handler = "upload"
   /\ \/ "enrichment_init" \in ghost.faults
      \/ \E k \in 1..Len(ghost.own) : ghost.own[k].failed
   /\ ghost.faults \subseteq {"enrichment_init"}
   /\ FileExtension(req.files[1].filename) = ExtVtt)
  => /\ response.status = 200
     /\ \A i \in 1..Len(loc.normalized_utterances) :
          \E d \in corpus :
            /\ d.id = loc.normalized_utterances[i].id
            /\ d.sentiment_score = 0
            /\ d.department = "Unknown"
            /\ d.region = "Unknown"
            /\ d.topics = GeneralDiscussion

\* C6: an upload whose utterance write or raw-transcript write failed, and
\* a search, trends or speakers request whose read failed, ends with a
\* 500-class response.
StorageFailureIsFatal ==
  (/\ pc = "done"
   /\ req.handler \in {"upload", "insights_utterances", "insights_trends",
                       "insights_speakers"}
   /\ ghost.faults \cap {"blob_write", "index_write", "index_read"} # {})
  => response.status >= 500

\* C7: ingesting the same transcript of the same meeting again leaves no
\* duplicated utterance: two documents of one meeting with the same
\* speaker, content and start are one document.
RedeliveryLeavesNoDuplicates ==
  \A d1 \in corpus, d2 \in corpus :
    (/\ d1.meeting_id = d2.meeting_id
     /\ d1.speaker = d2.speaker
     /\ d1.content = d2.content
     /\ d1.start_timestamp = d2.start_timestamp)
    => d1.id = d2.id

Pairs(utterances) ==
  {<<utterances[i].speaker, utterances[i].content>> : i \in 1..Len(utterances)}

\* start --> end with a blank on each side of the arrow.
WellFormedTiming(line) ==
  \E parts \in {SplitAll(line, SpacedArrow)} :
    Len(parts) = 2 /\ IsTimestamp(parts[1]) /\ IsTimestamp(parts[2])

\* An optional identifier, the timing line, and the text lines (none for a
\* cue with empty text).
WellFormedCue(b) ==
  \E t \in 1..2 :
    /\ Len(b) >= t
    /\ WellFormedTiming(b[t])
    /\ \A k \in (1..Len(b)) \ {t} : ~Contains(b[k], Arrow)

\* The header line, then cues, each set apart by blank lines.
WellFormed(lines) ==
  /\ lines # <<>>
  /\ \E blocks \in {BlocksOf(lines, <<>>)} :
       /\ blocks[1] = <<LineHeader>>
       /\ lines[1] = LineHeader
       /\ \A k \in 2..Len(blocks) : WellFormedCue(blocks[k])

\* C8: on a well-formed caption text, the primary parser and the fallback
\* parser produce the same set of (speaker, content) pairs.  (SpecParse)
ParsersAgreeOnWellFormed ==
  (pc = "p_return" /\ ~loc.raised /\ WellFormed(req.text))
  => Pairs(loc.utterances) = Pairs(parse_vtt_fallback(req.text, uuids))

\* C9: parse_vtt returns on every text; what it returns after the primary
\* parse failed is exactly the fallback's output, and after it succeeded
\* exactly the primary's; the fallback's scan ends.  (SpecParse)
ParseVttTotal ==
  /\ [](pc = "p_return" =>
          /\ loc.utterances = parse_vtt(req.text, uuids)
          /\ loc.raised => loc.utterances = loc.st.out
          /\ ~loc.raised => loc.st.out = <<>>)
  /\ (pc = "p_call") ~> (pc = "p_return")

\* The fallback has scanned a text the library rejects and found utterances.
FallbackReturned ==
  /\ pc = "p_return"
  /\ loc.raised
  /\ loc.st.i > Len(req.text)
  /\ loc.utterances # <<>>

\* C10: an upload of a .docx file whose container cannot be opened ends
\* with the 500 response, and at no point holds the blob container or the
\* index anything of that upload.
UnopenableDocxAborts ==
  (/\ req.handler = "upload"
   /\ pc # "idle"
   /\ req.files # <<>>
   /\ FileExtension(req.files[1].filename) = ExtDocx
   /\ ~req.files[1].doc.openable)
  => /\ pc = "done" => response.status = 500
     /\ \A d \in corpus : d.meeting_id # loc.meeting_id
     /\ \A b \in blobs : b.meeting_id # loc.meeting_id

\* Such an upload has been answered, next to the documents of an earlier one.
UnopenableDocxAnswered ==
  /\ req.handler = "upload"
  /\ pc = "done"
  /\ req.files # <<>>
  /\ FileExtension(req.files[1].filename) = ExtDocx
  /\ ~req.files[1].doc.openable
  /\ response = InternalError
  /\ corpus # {}

\* The code point of a character of a timing text.
CharCode(c) == IF c = "." THEN 46 ELSE IF c = ":" THEN 58 ELSE 48 + DigitVal(c)

\* a < b of two str values: the first differing character decides, a proper
\* prefix precedes.
TextuallyPrecedes(a, b) ==
  \E k \in 1..(Len(b)) :
    /\ k <= Len(a) + 1
    /\ \A j \in 1..(k - 1) : a[j] = b[j]
    /\ k = Len(a) + 1 \/ CharCode(a[k]) < CharCode(b[k])

\* C11: when the end time of cue A textually precedes the start time of
\* cue B, time_to_seconds of the former is at most time_to_seconds of the
\* latter.  (SpecTime)
TimeConversionMonotonic ==
  (pc = "t_return" /\ TextuallyPrecedes(req.end_time, req.start_time))
  => loc.end_seconds <= loc.start_seconds

\* The topics of the table one of whose keywords occurs in the text when
\* case is ignored on both sides.
TopicsOccurring(combined_text) ==
  {topic_keywords[t].topic : t \in
     {t \in 1..Len(topic_keywords) :
        \E k \in 1..Len(topic_keywords[t].keywords) :
          Contains(Lower(combined_text), Lower(topic_keywords[t].keywords[k]))}}

\* C12: a call whose embedding requests succeed returns exactly the topics
\* of the table one of whose keywords occurs, case ignored, in the joined
\* texts, and the single topic general_discussion exactly when none
\* occurs.  (SpecTopics)
TopicsExactlyMatched ==
  (pc = "g_return" /\ req.failed_first = 0)
  => \E occurring \in {TopicsOccurring(Join(req.texts, <<" ">>))} :
       /\ occurring # {} => Range(loc.first) = occurring
       /\ occurring = {} <=> loc.first = GeneralDiscussion

\* C13: two calls on the same texts return the same topic set, whatever the
\* embedding requests of either call did.  (SpecTopics)
TopicsOfTextsAlone ==
  pc = "g_return" => Range(loc.first) = Range(loc.second)

\* The documents of the index that the batch in hand has written.
BatchPersisted ==
  {d \in corpus : \E i \in 1..Len(loc.enriched_utterances) :
                    loc.enriched_utterances[i].id = d.id}

\* An upload has answered 200; a notification has just been reported as a
\* success.
UploadSucceeded == pc = "done" /\ req.handler = "upload" /\ response.status = 200

NotificationSucceeded ==
  /\ pc = "h_next"
  /\ req.handler = "graph"
  /\ loc.processed_meetings # <<>>
  /\ loc.processed_meetings[Len(loc.processed_meetings)].status = "success"

\* C14: the utterances an ingestion has persisted all carry the same
\* non-empty topic set, the meeting's, and after an upload that set is the
\* one the response reports.
SameTopicsOnEveryUtterance ==
  /\ UploadSucceeded =>
       \A d \in BatchPersisted :
         d.topics # <<>> /\ Range(d.topics) = Range(response.topics)
  /\ NotificationSucceeded =>
       \A d \in BatchPersisted :
         d.topics # <<>> /\ Range(d.topics) = Range(loc.topics)

\* C15: no record handed to store_utterances, by the upload or by the
\* webhook, carries the entities field.
NoEntitiesUpserted ==
  (UploadSucceeded \/ NotificationSucceeded)
  => \A i \in 1..Len(loc.enriched_utterances) :
       ~loc.enriched_utterances[i].has_entities

\* A quoted string constant of the filter language: the text between the
\* quotes holds no quote of its own.
QuotedLiteral(s) ==
  /\ Len(s) >= 2
  /\ s[1] = "'" /\ s[Len(s)] = "'"
  /\ \A i \in 2..(Len(s) - 1) : s[i] # "'"

\* A date or date-time constant, and a decimal number constant.
DateLiteral(s) == IsIsoNaive(s) \/ IsIsoAware(s) \/ IsIsoAware(ReplaceZ(s))

NumberLiteral(s) ==
  \E f \in {PyFloat(s)} : f.ok /\ f.f.k = "num" /\ ~Contains(s, <<" ">>)

\* What follows the prefix p in the clause c.
Operand(c, p) == SubSeq(c, Len(p) + 1, Len(c))

AnyOfClause(c) ==
  /\ Len(c) >= 2 /\ c[1] = "(" /\ c[Len(c)] = ")"
  /\ \E alternatives \in {SplitAll(SubSeq(c, 2, Len(c) - 1), <<" ", "o", "r", " ">>)} :
       \A i \in 1..Len(alternatives) :
         /\ StartsWith(alternatives[i], <<"t", "o", "p", "i", "c", "s", "/", "a", "n", "y", "(", "t", ":", " ", "t", " ", "e", "q", " ">>)
         /\ \E rest \in {Operand(alternatives[i], <<"t", "o", "p", "i", "c", "s", "/", "a", "n", "y", "(", "t", ":", " ", "t", " ", "e", "q", " ">>)} :
              /\ rest # <<>> /\ rest[Len(rest)] = ")"
              /\ QuotedLiteral(SubSeq(rest, 1, Len(rest) - 1))

\* The clause of the filter key: the field, the comparison and a constant
\* of the field's type.
ClauseOf(key, c) ==
  CASE key = "from_date" ->
         StartsWith(c, <<"m", "e", "e", "t", "i", "n", "g", "_", "d", "a", "t", "e", " ", "g", "e", " ">>) /\ DateLiteral(Operand(c, <<"m", "e", "e", "t", "i", "n", "g", "_", "d", "a", "t", "e", " ", "g", "e", " ">>))
    [] key = "to_date" ->
         StartsWith(c, <<"m", "e", "e", "t", "i", "n", "g", "_", "d", "a", "t", "e", " ", "l", "e", " ">>) /\ DateLiteral(Operand(c, <<"m", "e", "e", "t", "i", "n", "g", "_", "d", "a", "t", "e", " ", "l", "e", " ">>))
    [] key = "speaker" ->
         StartsWith(c, <<"s", "p", "e", "a", "k", "e", "r", " ", "e", "q", " ">>) /\ QuotedLiteral(Operand(c, <<"s", "p", "e", "a", "k", "e", "r", " ", "e", "q", " ">>))
    [] key = "department" ->
         StartsWith(c, <<"d", "e", "p", "a", "r", "t", "m", "e", "n", "t", " ", "e", "q", " ">>) /\ QuotedLiteral(Operand(c, <<"d", "e", "p", "a", "r", "t", "m", "e", "n", "t", " ", "e", "q", " ">>))
    [] key = "region" ->
         StartsWith(c, <<"r", "e", "g", "i", "o", "n", " ", "e", "q", " ">>) /\ QuotedLiteral(Operand(c, <<"r", "e", "g", "i", "o", "n", " ", "e", "q", " ">>))
    [] key = "topics" -> AnyOfClause(c)
    [] key = "sentiment_min" ->
         StartsWith(c, <<"s", "e", "n", "t", "i", "m", "e", "n", "t", "_", "s", "c", "o", "r", "e", " ", "g", "e", " ">>)
         /\ NumberLiteral(Operand(c, <<"s", "e", "n", "t", "i", "m", "e", "n", "t", "_", "s", "c", "o", "r", "e", " ", "g", "e", " ">>))
    [] key = "sentiment_max" ->
         StartsWith(c, <<"s", "e", "n", "t", "i", "m", "e", "n", "t", "_", "s", "c", "o", "r", "e", " ", "l", "e", " ">>)
         /\ NumberLiteral(Operand(c, <<"s", "e", "n", "t", "i", "m", "e", "n", "t", "_", "s", "c", "o", "r", "e", " ", "l", "e", " ">>))

\* C16: the filter search_utterances sends holds one well-formed clause
\* for every filter key present and no other clause, the clauses joined by
\* " and "; with no key present no filter is sent, as in a call without
\* filters.  (SpecInsights)
OneClausePerFilter ==
  pc = "i_respond" =>
    /\ Len(loc.search_params.filter_parts) = Cardinality(loc.filters.present)
    /\ \A key \in loc.filters.present :
         \E i \in 1..Len(loc.search_params.filter_parts) :
           ClauseOf(key, loc.search_params.filter_parts[i])
    /\ loc.search_params.filter = Join(loc.search_params.filter_parts, <<" ", "a", "n", "d", " ">>)
    /\ loc.search_params.has_filter <=> loc.filters.present # {}
    /\ loc.filters.present = {} =>
         loc.search_params = SearchParams(loc.search_text, NoFilters, loc.top, loc.skip)

TrendsAnswered == pc = "done" /\ req.handler = "insights_trends" /\ response.status = 200

\* C17: every trend's meetings_count is the number of retrieved utterances
\* that carry the trend's topic, at least one, and no topic has two trends.
\* (SpecInsights)
TrendCountsUtterances ==
  TrendsAnswered =>
    \A k \in 1..Len(response.body.trends) :
      /\ response.body.trends[k].meetings_count =
           Cardinality({i \in 1..Len(loc.utterances) :
                          response.body.trends[k].name \in Range(loc.utterances[i].topics)})
      /\ response.body.trends[k].meetings_count >= 1
      /\ \A j \in 1..Len(response.body.trends) :
           response.body.trends[j].name = response.body.trends[k].name => j = k

\* Four utterances were retrieved, three of them carry one topic, and the
\* topic that comes second in one of them is counted twice.
TrendCounted ==
  /\ TrendsAnswered
  /\ Len(loc.utterances) = 4
  /\ \E k \in 1..Len(response.body.trends) :
       response.body.trends[k].meetings_count = 3
  /\ \E k \in 1..Len(response.body.trends) :
       /\ response.body.trends[k].name = "operations"
       /\ response.body.trends[k].meetings_count = 2

\* C18: every trend's momentum is up exactly when its avg_sentiment is
\* above 0.1, down exactly when it is below -0.1 and flat otherwise, and its
\* novelty_score is min(meetings_count / 10, 1.0), within [0, 1].
\* (SpecInsights)
MomentumFollowsAverage ==
  TrendsAnswered =>
    \A k \in 1..Len(response.body.trends) :
      \E t \in {response.body.trends[k]} :
        /\ t.momentum = "up" <=> t.avg_sentiment > 10
        /\ t.momentum = "down" <=> t.avg_sentiment < 0 - 10
        /\ t.momentum \in {"up", "down", "flat"}
        /\ t.novelty_score = MinOf({t.meetings_count * 10, 100})
        /\ t.novelty_score \in 0..100

SpeakersAnswered ==
  pc = "done" /\ req.handler = "insights_speakers" /\ response.status = 200

\* The retrieved utterances of one speaker, in the order retrieved.
UtterancesOf(display_name) ==
  SelectSeq(loc.utterances, LAMBDA u : u.speaker = display_name)

\* C19: every summary holds at most 3 exemplar quotes, the contents of the
\* speaker's first 3 retrieved utterances in that order, each unchanged up
\* to 200 characters and else cut to 200 characters plus "...".
\* (SpecInsights)
QuotesAreFirstThree ==
  SpeakersAnswered =>
    \A k \in 1..Len(response.results) :
      \E quotes \in {response.results[k].exemplar_quotes},
         own \in {UtterancesOf(response.results[k].display_name)} :
        /\ Len(quotes) <= 3
        /\ Len(quotes) = MinOf({3, Len(own)})
        /\ \A i \in 1..Len(quotes) :
             quotes[i].quote =
               IF Len(own[i].content) <= 200 THEN own[i].content
               ELSE SubSeq(own[i].content, 1, 200) \o <<".", ".", ".">>

\* A speaker with four utterances got three quotes, one of them cut.
QuoteCut ==
  /\ SpeakersAnswered
  /\ \E k \in 1..Len(response.results) :
       /\ response.results[k].mentions = 4
       /\ Len(response.results[k].exemplar_quotes) = 3
       /\ \E i \in 1..3 : Len(response.results[k].exemplar_quotes[i].quote) = 203

\* C20: there is one summary for every distinct speaker name of the
\* retrieved utterances, case kept apart; its mentions is the number of
\* that speaker's utterances, so that the mentions add up to the number of
\* utterances; the summaries are in descending order of mentions.
\* (SpecInsights)
OneSummaryPerSpeaker ==
  SpeakersAnswered =>
    /\ {response.results[k].display_name : k \in 1..Len(response.results)}
         = {loc.utterances[i].speaker : i \in 1..Len(loc.utterances)}
    /\ \A j \in 1..Len(response.results), k \in 1..Len(response.results) :
         /\ response.results[j].display_name = response.results[k].display_name => j = k
         /\ j < k => response.results[j].mentions >= response.results[k].mentions
    /\ \A k \in 1..Len(response.results) :
         response.results[k].mentions =
           Len(UtterancesOf(response.results[k].display_name))
    /\ SumOf([k \in 1..Len(response.results) |-> response.results[k].mentions])
         = Len(loc.utterances)

\* The speaker met second has more utterances and is listed first; the two
\* names differ in case only.
BusierSpeakerFirst ==
  /\ SpeakersAnswered
  /\ Len(response.results) = 2
  /\ loc.utterances[1].speaker = response.results[2].display_name
  /\ Lower(response.results[1].display_name) = response.results[2].display_name
  /\ response.results[1].mentions > response.results[2].mentions

(***************************************************************************)
(* The chat endpoint.                                                      *)
(***************************************************************************)
NamedIntents ==
  {JStr(IntentOf(name)) :
     name \in {"trends", "speakers", "utterances", "sentiment", "topics"}}

\* The aggregation of the result holds something: a trend, a speaker, an
\* utterance, or a sentiment of at least one utterance.
ProducedData(data) ==
  CASE data.kind = "trends" -> data.trends_data.trends # <<>>
    [] data.kind = "speakers" -> data.speakers # <<>>
    [] data.kind = "sentiment" -> data.total_utterances > 0
    [] OTHER -> data.utterances # <<>>

\* C21: for each of the five intents, a query processed without error has
\* confidence 0.85 when its aggregation produced data and 0.3 when it
\* produced none.
ConfidenceFollowsData ==
  response.kind = "chat" /\ response.intent \in NamedIntents =>
    response.confidence =
      IF ProducedData(response.data) THEN HighConfidence ELSE LowConfidence

\* C22: when the call that renders the answer raises, the result has
\* confidence 0.0 and the apology as its answer, and the answer does not
\* hold the message of the exception.
AnswerFailureIsApology ==
  pc = "done" /\ ghost.answer_response.kind = "raise" =>
    /\ response.confidence = 0
    /\ response.answer = Apology
    /\ ~Contains(response.answer, ghost.answer_response.message)

\* The answer to the intent prompt is an object with an intent and with
\* parameters that are an object.
UsableAnalysis(resp) ==
  /\ resp.kind = "text"
  /\ resp.json.ok
  /\ resp.json.value.t = "object"
  /\ {"intent", "parameters"} \subseteq DOMAIN resp.json.value.fields
  /\ resp.json.value.fields["parameters"].t = "object"

\* C23: when intent extraction fails (the call raises, or its answer is not
\* the structure asked for), the query goes on with intent utterances and
\* no parameters and is answered from the utterances, not by the error
\* result.
IntentFailureFallsBackToUtterances ==
  ghost.intent_response # NotAsked /\ ~UsableAnalysis(ghost.intent_response) =>
    /\ pc \in {"c_data", "c_answer", "done"}
    /\ pc \in {"c_data", "c_answer"} =>
         loc.intent = JStr(IntentUtterances) /\ loc.parameters = NoParameters
    /\ pc = "done" =>
         /\ response.kind = "chat"
         /\ response.intent = JStr(IntentUtterances)
         /\ response.data.kind = "utterances"

NonEmptyString(j) == j.t = "string" /\ j.s # <<>>

\* C24: validate_parameters returns, for every parameters object, only
\* non-empty strings and, under topics alone, a list of non-empty strings:
\* null, "null" and empty values are dropped, numbers and other scalars
\* become strings, and a list under any other key is dropped.
ParametersSanitized ==
  loc.analysis # JNull =>
    \E given \in {loc.analysis.fields["parameters"].fields} :
      /\ DOMAIN loc.parameters \subseteq DOMAIN given
      /\ \A k \in DOMAIN loc.parameters :
           \/ NonEmptyString(loc.parameters[k])
           \/ /\ k = "topics"
              /\ loc.parameters[k].t = "array"
              /\ \A i \in 1..Len(loc.parameters[k].items) :
                   NonEmptyString(loc.parameters[k].items[i])
      /\ \A k \in DOMAIN given :
           /\ given[k].t = "null" \/ given[k] \in {JStr(<<"n", "u", "l", "l">>), JStr(<<>>)}
                => k \notin DOMAIN loc.parameters
           /\ given[k].t \in {"number", "bool"}
                => k \in DOMAIN loc.parameters /\ loc.parameters[k].t = "string"
           /\ given[k].t = "array" /\ k # "topics"
                => k \notin DOMAIN loc.parameters

\* A parameters object with a null, a "null", a padded name, a number, a
\* list of entities and a topics list of mixed items has been validated.
ParametersCleaned ==
  /\ loc.analysis # JNull
  /\ loc.analysis.fields["parameters"] = ParametersMixed
  /\ DOMAIN loc.parameters =
       {"department", "topics", "sentiment_filter", "urgent", "window"}
  /\ loc.parameters["department"] = JStr(<<"F", "i", "n", "a", "n", "c", "e">>)
  /\ loc.parameters["sentiment_filter"] = JStr(<<"-", "5">>)
  /\ loc.parameters["topics"] =
       JArr(<<JStr(<<"p", "a", "c", "k", "a", "g", "i", "n", "g">>), JStr(<<"7">>), JStr(<<"[", "'", "a", "'", "]">>)>>)

\* The speaker and content the rule of one ':' gives a trimmed cue text.
SingleSeparatorRule(text) ==
  IF Count(text, ":") = 1
     /\ Len(Strip(SplitOnce(text, <<":">>)[1])) <= SpeakerLimit
  THEN [speaker |-> Strip(SplitOnce(text, <<":">>)[1]),
        content |-> Strip(SplitOnce(text, <<":">>)[2])]
  ELSE [speaker |-> UnknownSpeaker, content |-> text]

\* C26: in both caption parsers a cue text with a single ':' and a trimmed
\* prefix of at most 50 characters gives that prefix as speaker and the
\* rest as content; every other text gives "Unknown Speaker" and the whole
\* text; a cue whose content is empty is dropped.  (SpecCue)
SpeakerOfSingleSeparator ==
  pc = "q_return" =>
    \E expected \in {SingleSeparatorRule(Strip(req.cue))} :
      IF expected.content = <<>> THEN loc.utterances = <<>>
      ELSE /\ Len(loc.utterances) = 1
           /\ loc.utterances[1].speaker = expected.speaker
           /\ loc.utterances[1].content = expected.content

\* The number of utterances of the list that carry the topic.
CarriedBy(utterances, topic) ==
  Cardinality({i \in 1..Len(utterances) : topic \in Range(utterances[i].topics)})

TopicsCarried(utterances) ==
  UNION {Range(utterances[i].topics) : i \in 1..Len(utterances)}

\* C27: the trends of get_trends are in non-increasing order of
\* meetings_count and at most 10; when more than 10 topics occur, no topic
\* left out has a larger count than one returned.  (SpecTrends)
TrendsSortedAndCut ==
  pc = "r_return" =>
    \E trends \in {loc.body.trends}, occurring \in {TopicsCarried(loc.utterances)} :
      /\ Len(trends) = MinOf({Cardinality(occurring), TrendLimit})
      /\ \A i \in 1..Len(trends), j \in 1..Len(trends) :
           i < j => /\ trends[i].meetings_count >= trends[j].meetings_count
                    /\ trends[i].name # trends[j].name
      /\ \A i \in 1..Len(trends) :
           /\ trends[i].name \in occurring
           /\ trends[i].meetings_count = CarriedBy(loc.utterances, trends[i].name)
           /\ \A topic \in occurring \ {trends[k].name : k \in 1..Len(trends)} :
                CarriedBy(loc.utterances, topic) <= trends[i].meetings_count

\* Twelve topics occur; ten are returned, led by the eleventh met, which
\* two utterances carry, and without the twelfth.
TrendsCut ==
  /\ pc = "r_return"
  /\ Cardinality(TopicsCarried(loc.utterances)) > TrendLimit
  /\ Len(loc.body.trends) = TrendLimit
  /\ loc.utterances[1].topics = ManyTopics
  /\ loc.body.trends[1].name \in {"t05", "t11"}
  /\ loc.body.trends[1].meetings_count = 2
  /\ loc.body.trends[2].meetings_count = 2

\* The enriched record with the four fields of enrichment set back to the
\* input's.
WithoutEnrichment(enriched_utterance, utterance) ==
  [enriched_utterance EXCEPT !.sentiment_score = utterance.sentiment_score,
                             !.has_entities = utterance.has_entities,
                             !.department = utterance.department,
                             !.region = utterance.region]

\* C28: enrich_utterances leaves the input list and its records as they
\* were; the output follows the input's order, has its length on return,
\* and differs from it only in sentiment_score, entities, department and
\* region.  (SpecEnrich)
EnrichmentKeepsInput ==
  [][/\ req'.utterances = req.utterances
     /\ Len(loc'.enriched_utterances) <= Len(req.utterances)
     /\ \A i \in 1..Len(loc'.enriched_utterances) :
          WithoutEnrichment(loc'.enriched_utterances[i], req.utterances[i])
            = req.utterances[i]
     /\ pc' = "e_returned" =>
          Len(loc'.enriched_utterances) = Len(req.utterances)]_vars

\* Two utterances were enriched, and the first came out with a department
\* and a score of its own.
EnrichedBatchReturned ==
  /\ pc = "e_returned"
  /\ Len(req.utterances) = 2
  /\ loc.enriched_utterances[1].department # req.utterances[1].department
  /\ loc.enriched_utterances[1].sentiment_score # req.utterances[1].sentiment_score
  /\ loc.enriched_utterances[1].has_entities

\* The stage of the pipeline a handler stands in: parse 1, normalize 2,
\* enrichment 3, topic inference 4, summary 5, persistence 6.
StageOf(at) ==
  CASE at \in {"u_parse", "h_fetch", "h_parse"} -> 1
    [] at = "u_normalize" -> 2
    [] at \in {"u_construct", "u_enrich", "h_construct", "h_enrich"} -> 3
    [] at \in {"u_topics", "h_topics"} -> 4
    [] at = "u_summary" -> 5
    [] at \in {"u_storage", "u_store_transcript", "u_store_utterances", "h_store"} -> 6
    [] at = "done" -> 7
    [] OTHER -> 0

\* Every utterance of the batch has its enriched record or its fallback.
EnrichmentFinished ==
  /\ loc.normalized_utterances # <<>>
  /\ Len(loc.enriched_utterances) = Len(loc.normalized_utterances)

\* C25: a batch goes through parse, normalize, enrichment, topic inference,
\* summary and persistence in this order; the topic and summary calls start
\* only when every utterance of the batch is enriched, and blob storage and
\* the index are written only after enrichment has finished.
StagesInOrder ==
  [][/\ StageOf(pc') >= StageOf(pc) \/ pc' = "h_next"
     /\ StageOf(pc') \in {4, 5} => EnrichmentFinished'
     /\ pc' = "u_summary" => pc = "u_topics"
     /\ blobs' # blobs \/ corpus' # corpus =>
          StageOf(pc) = 6 /\ EnrichmentFinished]_vars

\* An upload of two utterances went through every stage and wrote its
\* documents to the index.
AllStagesPassed ==
  /\ pc = "done"
  /\ response.kind = "upload"
  /\ Len(loc.enriched_utterances) = 2
  /\ loc.meeting_summary = "collaborator_summary"
  /\ loc.result
  /\ \E d \in corpus : d.meeting_id = loc.meeting_id /\ d.topics = loc.topics

\* C29: an upload of a .docx file that parses to at least one utterance,
\* with every collaborator answering and every write succeeding, ends with
\* status success and its utterances in the search index.
DocxUploadSucceeds ==
  (/\ req.handler = "upload"
   /\ pc = "done"
   /\ req.files # <<>>
   /\ FileExtension(req.files[1].filename) = ExtDocx
   /\ ~parse_docx(req.files[1].doc, 0).raised
   /\ parse_docx(req.files[1].doc, 0).utterances # <<>>
   /\ ghost.faults = {}
   /\ ~ghost.raised)
  => /\ response.status = 200
     /\ response.outcome = "success"
     /\ Cardinality(BatchPersisted) = Len(parse_docx(req.files[1].doc, 0).utterances)

HookStates ==
  {"h_next", "h_fetch", "h_parse", "h_construct", "h_enrich", "h_topics", "h_store"}

\* The meeting a notification names, unknown when it names none.
OwnMeeting(notification) ==
  IF notification.dict /\ notification.meeting # 0
  THEN GraphMeeting(notification.meeting) ELSE NoMeeting

\* One step of the webhook on a POST: what it may do to processed_meetings
\* and how it may end.
NotificationStep ==
  pc \in HookStates =>
    /\ Len(loc'.processed_meetings) <= loc'.k
    /\ Len(loc'.processed_meetings) <= Len(loc.processed_meetings) + 1
    /\ SubSeq(loc'.processed_meetings, 1, Len(loc.processed_meetings))
         = loc.processed_meetings
    /\ (/\ Len(loc'.processed_meetings) > Len(loc.processed_meetings)
        /\ loc'.processed_meetings[Len(loc'.processed_meetings)].status = "error")
       => loc'.processed_meetings[Len(loc'.processed_meetings)].meeting_id
            = OwnMeeting(req.body.value[loc'.k])
    /\ pc' \in HookStates \cup {"done"}
    /\ pc' = "done" =>
         /\ loc.k = Len(req.body.value)
         /\ response'.status = 200
         /\ response'.total_notifications = Len(req.body.value)
         /\ response'.processed_meetings = loc.processed_meetings

\* C30: the notifications of a POST are processed one by one: a failure
\* appends one error entry, which names the meeting of the notification
\* that failed (or unknown), and the loop goes on; processed_meetings holds
\* at most one entry per notification, and the response is 200 with
\* total_notifications the number of notifications received.
NotificationsIndependent == [][NotificationStep]_vars

====
